---- MODULE Spec2Model ----
(***************************************************************************)
(* Artwork-Provenance: the RDF store (backend/app/services/rdf_store.py)   *)
(* and the EDM importer (backend/app/services/data_importer.py).           *)
(*                                                                         *)
(* Python strings are sequences of one-character strings, so that          *)
(* indexing (s[0]), joining, quoting and str() are computed, not assumed.  *)
(* An RDF node is a record [k, n, s]: k the kind of the node, n the number *)
(* that stands for its uuid4, s its text.  A statement is <<s, p, o>>.     *)
(***************************************************************************)
EXTENDS Integers, Sequences, FiniteSets, TLC

VARIABLES
    graph,              \* RDFStoreService.graph: the set of statements
    created_artists,    \* DataImporter.created_artists  {name: uri}
    created_locations,  \* DataImporter.created_locations {key: uri}
    created_entities,   \* DataImporter.created_entities {(name, link): uri}
    nextId,             \* the next value uuid4() hands out
    epoch,              \* which DataImporter instance is the current one
    call,               \* how many import calls have entered the loop
    pc,                 \* "idle" or "running": position of import_edm_xml
    docLen,             \* number of edm:ProvidedCHO elements of the document
    todo,               \* how many of them the loop has not visited yet
    errors,             \* import_edm_xml: the local list errors
    imported_count,     \* import_edm_xml: the local imported_count
    outcomes,           \* per visited record, in order: what happened to it
    summary,            \* what the last import call returned, or that it raised
    mintLog,            \* every node a find-or-create minted: epoch, kind, key, uri
    lastOp,             \* the last direct Store call or query and its result
    race                \* concurrent callers of _find_or_create_artist: where
                        \* each one is, and whether two of them overlapped

vars == <<graph, created_artists, created_locations, created_entities, nextId,
          epoch, call, pc, docLen, todo, errors, imported_count, outcomes,
          summary, mintLog, lastOp, race>>

----------------------------------------------------------------------------
(* Python values *)

\* Python's None; no text of the model equals it
None == <<"<None>">>

\* a key that a dict does not hold (d[k] raises KeyError, d.get(k) is None)
Absent == <<"<absent>">>

\* `not x` for a str or None
Falsy(x) == x = None \/ x = Absent \/ x = <<>>

\* str(None), as Literal(None) stores it
NoneText == <<"N", "o", "n", "e">>

RECURSIVE Concat(_)
\* "".join(parts)
Concat(parts) ==
    IF parts = <<>> THEN <<>> ELSE Head(parts) \o Concat(Tail(parts))

RECURSIVE JoinWith(_, _)
\* sep.join(parts)
JoinWith(sep, parts) ==
    IF parts = <<>> THEN <<>>
    ELSE IF Len(parts) = 1 THEN parts[1]
    ELSE parts[1] \o sep \o JoinWith(sep, Tail(parts))

\* the characters urllib.parse.quote(s, safe='') leaves alone
Unreserved ==
    {"A", "B", "C", "D", "E", "F", "G", "H", "I", "J", "K", "L", "M",
     "N", "O", "P", "Q", "R", "S", "T", "U", "V", "W", "X", "Y", "Z",
     "a", "b", "c", "d", "e", "f", "g", "h", "i", "j", "k", "l", "m",
     "n", "o", "p", "q", "r", "s", "t", "u", "v", "w", "x", "y", "z",
     "0", "1", "2", "3", "4", "5", "6", "7", "8", "9", "-", "_", ".",
     "~"}

\* the percent-encoding of one reserved character of the model's alphabet
PercentOf(c) ==
    CASE c = " " -> <<"%", "2", "0">>
      [] c = "," -> <<"%", "2", "C">>
      [] c = "'" -> <<"%", "2", "7">>
      [] c = "[" -> <<"%", "5", "B">>
      [] c = "]" -> <<"%", "5", "D">>
      [] c = ":" -> <<"%", "3", "A">>
      [] c = "/" -> <<"%", "2", "F">>
      [] OTHER   -> <<"%", "3", "F">>

\* urllib.parse.quote(s, safe='') for a str s
Quote(s) ==
    Concat([i \in 1..Len(s) |->
              IF s[i] \in Unreserved THEN <<s[i]>> ELSE PercentOf(s[i])])

\* str(list of str): "['a', 'b']"
PyListRepr(items) ==
    <<"[">> \o JoinWith(<<",", " ">>,
                        [i \in 1..Len(items) |-> <<"'">> \o items[i] \o <<"'">>])
           \o <<"]">>

\* a value that is a str (or None) or a list of str
PyStr(x) == [isList |-> FALSE, str |-> x, items |-> <<>>]
PyList(xs) == [isList |-> TRUE, str |-> <<>>, items |-> xs]

\* `not v` for such a value
FalsyVal(v) == IF v.isList THEN v.items = <<>> ELSE Falsy(v.str)

\* v[0]: the first item of a list, the first character of a str
FirstOf(v) == IF v.isList THEN v.items[1] ELSE <<v.str[1]>>

\* the lexical form rdflib's Literal(v) stores: str(v) for any object
LexicalOf(v) ==
    IF v.isList THEN PyListRepr(v.items)
    ELSE IF v.str = None THEN NoneText ELSE v.str

----------------------------------------------------------------------------
(* Text: a str is a sequence of characters.  A letter outside ASCII is     *)
(* written by its name: "a_breve", "a_circ", "i_circ", "s_comma",          *)
(* "t_comma", and "A_breve" ... for the capitals.                          *)

\* the characters of the model in the order of their code points
CodeOrder ==
    <<" ", "%", "'", ",", "-", ".", "/", "0", "1", "2", "3", "4", "5", "6",
      "7", "8", "9", ":", "A", "B", "C", "D", "E", "F", "G", "H", "I", "J",
      "K", "L", "M", "N", "O", "P", "Q", "R", "S", "T", "U", "V", "W", "X",
      "Y", "Z", "[", "]", "_", "a", "b", "c", "d", "e", "f", "g", "h", "i",
      "j", "k", "l", "m", "n", "o", "p", "q", "r", "s", "t", "u", "v", "w",
      "x", "y", "z", "~", "A_circ", "I_circ", "a_circ", "i_circ", "A_breve",
      "a_breve", "S_comma", "s_comma", "T_comma", "t_comma">>

\* the rank of a character in that order
Code(c) == CHOOSE i \in 1..Len(CodeOrder) : CodeOrder[i] = c

UpperCase ==
    <<"A", "B", "C", "D", "E", "F", "G", "H", "I", "J", "K", "L", "M", "N",
      "O", "P", "Q", "R", "S", "T", "U", "V", "W", "X", "Y", "Z", "A_circ",
      "I_circ", "A_breve", "S_comma", "T_comma">>
LowerCase ==
    <<"a", "b", "c", "d", "e", "f", "g", "h", "i", "j", "k", "l", "m", "n",
      "o", "p", "q", "r", "s", "t", "u", "v", "w", "x", "y", "z", "a_circ",
      "i_circ", "a_breve", "s_comma", "t_comma">>

\* str.lower() / SPARQL LCASE, character by character
LowerChar(c) ==
    IF \E i \in 1..Len(UpperCase) : UpperCase[i] = c
    THEN LowerCase[CHOOSE i \in 1..Len(UpperCase) : UpperCase[i] = c]
    ELSE c
Lower(s) == [i \in 1..Len(s) |-> LowerChar(s[i])]

\* `k in s` / SPARQL CONTAINS(s, k)
Contains(s, k) ==
    \E text \in {s}, word \in {k} :
        \E i \in 0..(Len(text) - Len(word)) :
            \A j \in 1..Len(word) : text[i + j] = word[j]

\* a < b for two str: at the first position where they differ the
\* character of a has the smaller code point, or a is a proper prefix of b
StrLess(a, b) ==
    \/ /\ Len(a) < Len(b)
       /\ \A j \in 1..Len(a) : a[j] = b[j]
    \/ \E i \in 1..Len(a) :
          /\ i <= Len(b)
          /\ \A j \in 1..(i - 1) : a[j] = b[j]
          /\ Code(a[i]) < Code(b[i])

----------------------------------------------------------------------------
(* RDF nodes and statements *)

\* f"{base_uri}{kind}/{uuid}"
Uri(kind, n) == [k |-> kind, n |-> n, s |-> <<>>]

\* URIRef of an external link (a plain string)
ExtUri(link) == [k |-> "ext", n |-> 0, s |-> link]

\* rdflib Literal(str)
Lit(text) == [k |-> "lit", n |-> 0, s |-> text]

\* a class of one of the two vocabularies
Class(name) == [k |-> "class", n |-> 0, s |-> <<name>>]

\* URIRef(f"{uri}/{part}/{tail}")
SubUri(uri, part, tail) == [k |-> uri.k \o "/" \o part, n |-> uri.n, s |-> tail]

\* the value a URI-valued field holds when it is not set
NoUri == [k |-> "none", n |-> 0, s |-> <<>>]

\* one graph.add of an add operation: the statement, or the raise of
\* building its nodes (URIRef(None), quote(None), a KeyError)
Step(s, p, o) == [raises |-> FALSE, t |-> <<s, p, o>>]
Raise == [raises |-> TRUE, t |-> <<NoUri, "", NoUri>>]

\* the index of the first step that raises, Len + 1 when none does
FirstRaise(steps) ==
    IF \E i \in 1..Len(steps) : steps[i].raises
    THEN CHOOSE i \in 1..Len(steps) :
            steps[i].raises /\ \A j \in 1..(i - 1) : ~steps[j].raises
    ELSE Len(steps) + 1

\* run the steps of one try block: what reached the graph, and whether the
\* block ran to its end
RunSteps(steps) ==
    [added |-> {steps[i].t : i \in 1..(FirstRaise(steps) - 1)},
     ok |-> FirstRaise(steps) = Len(steps) + 1]

\* the steps when the store raises in graph.add number k (k = 0: it does not)
Faulted(steps, k) == [i \in 1..Len(steps) |-> IF i = k THEN Raise ELSE steps[i]]

\* a fault of the store during one record: the operation whose graph.add
\* number `at` raises, or "resolve": an exception inside the resolution
NoFault == [op |-> "none", at |-> 0]
FaultAt(flt, op) == IF flt.op = op THEN flt.at ELSE 0

\* graph.add((s, p, URIRef(u))) where u may be None
UriStep(s, p, u) == IF u = NoUri THEN Raise ELSE Step(s, p, u)

\* a step taken only under a condition
When(cond, step) == IF cond THEN <<step>> ELSE <<>>

----------------------------------------------------------------------------
(* RDFStoreService: TYPE_KEYWORDS *)

Keywords_drawing ==
    {<<"d", "e", "s", "e", "n">>, <<"d", "r", "a", "w", "i", "n", "g">>,
     <<"s", "c", "h", "i", "t_comma", "a_breve">>,
     <<"s", "c", "h", "i", "t", "a">>, <<"s", "k", "e", "t", "c", "h">>,
     <<"c", "r", "e", "i", "o", "n">>, <<"p", "e", "n", "c", "i", "l">>,
     <<"c", "a_breve", "r", "b", "u", "n", "e">>,
     <<"c", "h", "a", "r", "c", "o", "a", "l">>, <<"t", "u", "s_comma">>,
     <<"i", "n", "k">>, <<"p", "a", "s", "t", "e", "l">>,
     <<"g", "r", "a", "f", "i", "c", "a_breve">>,
     <<"g", "r", "a", "p", "h", "i", "c">>}

Keywords_print ==
    {<<"g", "r", "a", "v", "u", "r", "a_breve">>,
     <<"g", "r", "a", "v", "u", "r", "a">>, <<"p", "r", "i", "n", "t">>,
     <<"l", "i", "t", "o", "g", "r", "a", "f", "i", "e">>,
     <<"l", "i", "t", "h", "o", "g", "r", "a", "p", "h">>,
     <<"a", "c", "v", "a", "f", "o", "r", "t", "e">>,
     <<"e", "t", "c", "h", "i", "n", "g">>,
     <<"x", "i", "l", "o", "g", "r", "a", "v", "u", "r", "a_breve">>,
     <<"w", "o", "o", "d", "c", "u", "t">>,
     <<"s", "t", "a", "m", "p", "a_breve">>,
     <<"s", "e", "r", "i", "g", "r", "a", "f", "i", "e">>}

Keywords_photograph ==
    {<<"f", "o", "t", "o", "g", "r", "a", "f", "i", "e">>,
     <<"f", "o", "t", "o", "g", "r", "a", "f", "i", "a">>,
     <<"p", "h", "o", "t", "o", "g", "r", "a", "p", "h">>,
     <<"p", "h", "o", "t", "o">>, <<"f", "o", "t", "o">>,
     <<"n", "e", "g", "a", "t", "i", "v">>,
     <<"n", "e", "g", "a", "t", "i", "v", "e">>,
     <<"d", "a", "g", "u", "e", "r", "r", "e", "o", "t", "y", "p", "e">>}

Keywords_manuscript ==
    {<<"m", "a", "n", "u", "s", "c", "r", "i", "s">>,
     <<"m", "a", "n", "u", "s", "c", "r", "i", "p", "t">>,
     <<"d", "o", "c", "u", "m", "e", "n", "t">>,
     <<"s", "c", "r", "i", "s", "o", "a", "r", "e">>,
     <<"l", "e", "t", "t", "e", "r">>,
     <<"i", "n", "c", "u", "n", "a", "b", "u", "l">>,
     <<"c", "a", "r", "t", "e">>}

Keywords_installation ==
    {<<"i", "n", "s", "t", "a", "l", "a", "t_comma", "i", "e">>,
     <<"i", "n", "s", "t", "a", "l", "a", "t", "i", "e">>,
     <<"i", "n", "s", "t", "a", "l", "l", "a", "t", "i", "o", "n">>}

Keywords_artifact ==
    {<<"a", "r", "t", "e", "f", "a", "c", "t">>,
     <<"a", "r", "t", "i", "f", "a", "c", "t">>,
     <<"c", "e", "r", "a", "m", "i", "c", "a_breve">>,
     <<"c", "e", "r", "a", "m", "i", "c">>,
     <<"p", "o", "t", "t", "e", "r", "y">>,
     <<"p", "o", "r", "t_comma", "e", "l", "a", "n">>,
     <<"t", "e", "x", "t", "i", "l">>, <<"t", "e", "x", "t", "i", "l", "e">>,
     <<"c", "o", "v", "o", "r">>, <<"c", "a", "r", "p", "e", "t">>,
     <<"t", "a", "p", "i", "s", "e", "r", "i", "e">>,
     <<"m", "o", "n", "e", "d", "a_breve">>, <<"c", "o", "i", "n">>,
     <<"b", "i", "j", "u", "t", "e", "r", "i", "e">>,
     <<"j", "e", "w", "e", "l", "r", "y">>,
     <<"m", "o", "b", "i", "l", "i", "e", "r">>,
     <<"f", "u", "r", "n", "i", "t", "u", "r", "e">>, <<"v", "a", "s">>,
     <<"v", "e", "s", "s", "e", "l">>}

Keywords_sculpture ==
    {<<"s", "c", "u", "l", "p", "t", "u", "r", "a_breve">>,
     <<"s", "c", "u", "l", "p", "t", "u", "r", "a">>,
     <<"s", "c", "u", "l", "p", "t", "u", "r", "e">>,
     <<"s", "t", "a", "t", "u", "i", "e">>, <<"s", "t", "a", "t", "u", "e">>,
     <<"b", "u", "s", "t">>, <<"r", "e", "l", "i", "e", "f">>,
     <<"b", "r", "o", "n", "z">>, <<"b", "r", "o", "n", "z", "e">>,
     <<"m", "a", "r", "m", "u", "r", "a_breve">>,
     <<"m", "a", "r", "b", "l", "e">>,
     <<"r", "o", "n", "d", "e", "-", "b", "o", "s", "s", "e">>}

Keywords_painting ==
    {<<"p", "i", "c", "t", "u", "r", "a_breve">>,
     <<"p", "i", "c", "t", "u", "r", "a">>,
     <<"p", "a", "i", "n", "t", "i", "n", "g">>, <<"u", "l", "e", "i">>,
     <<"o", "i", "l">>, <<"p", "a_circ", "n", "z", "a_breve">>,
     <<"p", "a", "n", "z", "a">>, <<"c", "a", "n", "v", "a", "s">>}

\* the keys of TYPE_KEYWORDS
TypeNames ==
    {<<"d", "r", "a", "w", "i", "n", "g">>,
     <<"p", "r", "i", "n", "t">>,
     <<"p", "h", "o", "t", "o", "g", "r", "a", "p", "h">>,
     <<"m", "a", "n", "u", "s", "c", "r", "i", "p", "t">>,
     <<"i", "n", "s", "t", "a", "l", "l", "a", "t", "i", "o", "n">>,
     <<"a", "r", "t", "i", "f", "a", "c", "t">>,
     <<"s", "c", "u", "l", "p", "t", "u", "r", "e">>,
     <<"p", "a", "i", "n", "t", "i", "n", "g">>}

\* the key alone, the table not consulted
TypeKeyOnly(type_key) == {type_key}

\* TYPE_KEYWORDS.get(type_key, [type_key])
TYPE_KEYWORDS(type_key) ==
    CASE type_key = <<"d", "r", "a", "w", "i", "n", "g">> -> Keywords_drawing
      [] type_key = <<"p", "r", "i", "n", "t">> -> Keywords_print
      [] type_key = <<"p", "h", "o", "t", "o", "g", "r", "a", "p", "h">> -> Keywords_photograph
      [] type_key = <<"m", "a", "n", "u", "s", "c", "r", "i", "p", "t">> -> Keywords_manuscript
      [] type_key = <<"i", "n", "s", "t", "a", "l", "l", "a", "t", "i", "o", "n">> -> Keywords_installation
      [] type_key = <<"a", "r", "t", "i", "f", "a", "c", "t">> -> Keywords_artifact
      [] type_key = <<"s", "c", "u", "l", "p", "t", "u", "r", "e">> -> Keywords_sculpture
      [] type_key = <<"p", "a", "i", "n", "t", "i", "n", "g">> -> Keywords_painting
      [] OTHER -> {type_key}

----------------------------------------------------------------------------
(* RDFStoreService: the add operations.  Each returns the new graph, the   *)
(* value returned to the caller (ret), whether any graph.add of the        *)
(* operation, nested helpers included, did not happen (failed), and        *)
(* whether the call raised to its caller instead of returning (raised).    *)
(* The subject is NoUri when the caller passes None: URIRef(None) raises.  *)

RdfType == "rdf:type"

\* the identifier node built but never linked to the artwork
AddArtworkIdUnlinked(artwork_uri, artwork_id) ==
    LET identifier_uri ==
            SubUri(artwork_uri, "identifier",
                   IF Falsy(artwork_id) THEN <<>> ELSE Quote(artwork_id))
        bad == artwork_id = None \/ artwork_id = Absent
    IN RunSteps(
        When(bad, Raise)
        \o <<Step(identifier_uri, RdfType, Class("crm:E42_Identifier")),
             Step(identifier_uri, "crm:P190_has_symbolic_content", Lit(artwork_id))>>)

\* add_artwork.add_artwork_id: its own try block
AddArtworkId(artwork_uri, artwork_id) ==
    LET identifier_uri ==
            SubUri(artwork_uri, "identifier",
                   IF Falsy(artwork_id) THEN <<>> ELSE Quote(artwork_id))
        \* quote(None) raises before the first graph.add
        bad == artwork_id = None \/ artwork_id = Absent
    IN RunSteps(
        When(bad, Raise)
        \o <<Step(identifier_uri, RdfType, Class("crm:E42_Identifier")),
             Step(identifier_uri, "crm:P190_has_symbolic_content", Lit(artwork_id)),
             Step(artwork_uri, "crm:P1_is_identified_by", identifier_uri)>>)

\* add_artwork.add_artwork_title: its own try block
AddArtworkTitle(artwork_uri, title) ==
    LET title_uri ==
            SubUri(artwork_uri, "title",
                   IF Falsy(title) THEN <<>> ELSE Quote(title))
        bad == title = None \/ title = Absent
    IN RunSteps(
        When(bad, Raise)
        \o <<Step(title_uri, RdfType, Class("crm:E35_Title")),
             Step(title_uri, "crm:P190_has_symbolic_content", Lit(title)),
             Step(artwork_uri, "crm:P102_has_title", title_uri)>>)

\* what add_artwork returns given the results of its two nested helpers:
\* the helpers' return values are dropped, the outer block decides
ArtworkReturn(outer, idr, titler) == outer.ok

\* RDFStoreService.add_artwork; the two helpers run after the two type
\* statements, inside the outer try block
AddArtwork(g, artwork_uri, d, k) ==
    LET outer == RunSteps(Faulted(
            When(artwork_uri = NoUri, Raise)
            \o <<Step(artwork_uri, RdfType, Class("prov:Entity")),
                 Step(artwork_uri, RdfType, Class("crm:E22_Man_Made_Object"))>>
            \o When(~Falsy(d.imageURL),
                    Step(artwork_uri, "foaf:depiction", ExtUri(d.imageURL)))
            \o When(d.type_uri # NoUri,
                    Step(artwork_uri, "crm:P2_has_type", d.type_uri))
            \o When(d.subject_uri # NoUri,
                    Step(artwork_uri, "crm:P15_was_influenced_by", d.subject_uri))
            \o When(d.material_uri # NoUri,
                    Step(artwork_uri, "crm:P45_consists_of", d.material_uri)), k))
        reached == k \notin {1, 2} /\ artwork_uri # NoUri
        skipped == [added |-> {}, ok |-> TRUE]
        idr == IF reached THEN AddArtworkId(artwork_uri, d.inventoryNumber)
               ELSE skipped
        titler == IF reached THEN AddArtworkTitle(artwork_uri, d.title)
                  ELSE skipped
    IN [graph |-> g \cup outer.added \cup idr.added \cup titler.added,
        ret |-> ArtworkReturn(outer, idr, titler),
        failed |-> ~outer.ok \/ ~idr.ok \/ ~titler.ok,
        raised |-> FALSE]

\* the class add_entity gives a node of the entity type
EntityClass(entity_type) ==
    CASE entity_type = "type"     -> <<Class("crm:E55_Type")>>
      [] entity_type = "subject"  -> <<Class("crm:E28_Conceptual_Object")>>
      [] entity_type = "material" -> <<Class("crm:E57_Material")>>
      [] OTHER                    -> <<>>

\* RDFStoreService.add_entity
AddEntity(g, entity_type, entity_uri, entity_name, entity_link, k) ==
    LET r == RunSteps(Faulted(
            When(entity_uri = NoUri, Raise)
            \o When(~Falsy(entity_link),
                 Step(entity_uri, "owl:sameAs", ExtUri(entity_link)))
            \o (IF entity_type \in {"provider", "institute"}
                THEN <<Step(entity_uri, RdfType, Class("prov:Agent"))>>
                ELSE <<Step(entity_uri, "rdfs:label",
                            Lit(LexicalOf(PyStr(entity_name))))>>
                     \o [i \in 1..Len(EntityClass(entity_type)) |->
                            Step(entity_uri, RdfType, EntityClass(entity_type)[i])]), k))
    IN [graph |-> g \cup r.added, ret |-> r.ok, failed |-> ~r.ok, raised |-> FALSE]

\* the statements of the artist put in place of the graph
AddArtistReplacing(g, artist_uri, d, k) ==
    LET r == RunSteps(Faulted(
            <<Step(artist_uri, RdfType, Class("prov:Agent")),
              Step(artist_uri, RdfType, Class("crm:E21_Person")),
              Step(artist_uri, "foaf:name", Lit(LexicalOf(PyStr(d.creator))))>>, k))
    IN [graph |-> r.added, ret |-> r.ok, failed |-> ~r.ok, raised |-> FALSE]

\* RDFStoreService.add_artist
AddArtist(g, artist_uri, d, k) ==
    LET r == RunSteps(Faulted(
            When(artist_uri = NoUri, Raise)
            \o <<Step(artist_uri, RdfType, Class("prov:Agent")),
                 Step(artist_uri, RdfType, Class("crm:E21_Person")),
                 IF d.creator = Absent THEN Raise
                 ELSE Step(artist_uri, "foaf:name",
                           Lit(LexicalOf(PyStr(d.creator))))>>
            \o When(~Falsy(d.creatorULAN),
                    Step(artist_uri, "owl:sameAs", ExtUri(d.creatorULAN))), k))
    IN [graph |-> g \cup r.added, ret |-> r.ok, failed |-> ~r.ok, raised |-> FALSE]

\* RDFStoreService.add_location: URIRef(location_uri) is built before the
\* try block, so with None for the uri the call raises to its caller
AddLocation(g, location_uri, d, k) ==
    LET r == RunSteps(Faulted(
            <<Step(location_uri, RdfType, Class("prov:Location")),
              Step(location_uri, RdfType, Class("crm:E53_Place")),
              IF ~d.location.isList /\ d.location.str = Absent THEN Raise
              ELSE Step(location_uri, "rdfs:label", Lit(LexicalOf(d.location)))>>
            \o When(~Falsy(d.locationTGN),
                    Step(location_uri, "owl:sameAs", ExtUri(d.locationTGN))), k))
    IN IF location_uri = NoUri
       THEN [graph |-> g, ret |-> FALSE, failed |-> TRUE, raised |-> TRUE]
       ELSE [graph |-> g \cup r.added, ret |-> r.ok, failed |-> ~r.ok,
             raised |-> FALSE]

\* the produced link added last, after the provider and the institute
AddProvenanceEventProducedLast(g, event_uri, d, k) ==
    LET r == RunSteps(Faulted(
            When(event_uri = NoUri, Raise) \o
            <<Step(event_uri, RdfType, Class("prov:Activity")),
              Step(event_uri, RdfType, Class("crm:E12_Production")),
              IF d.type = Absent THEN Raise
              ELSE Step(event_uri, "rdfs:label", Lit(LexicalOf(PyStr(d.type)))),
              UriStep(event_uri, "crm:P14_carried_out_by", d.artist_uri),
              UriStep(event_uri, "crm:P7_took_place_at", d.location_uri),
              IF d.date = Absent THEN Raise
              ELSE Step(event_uri, "crm:P4_has_time_span",
                        Lit(LexicalOf(PyStr(d.date)))),
              UriStep(event_uri, "crm:P109_has_current_or_former_curator",
                      d.provider_uri),
              UriStep(event_uri, "crm:P50i_is_currently_held_by",
                      d.institute_uri),
              UriStep(event_uri, "crm:P108_has_produced", d.artwork_uri)>>, k))
    IN [graph |-> g \cup r.added, ret |-> r.ok, failed |-> ~r.ok, raised |-> FALSE]

\* RDFStoreService.add_provenance_event
AddProvenanceEvent(g, event_uri, d, k) ==
    LET r == RunSteps(Faulted(
            When(event_uri = NoUri, Raise) \o
            <<Step(event_uri, RdfType, Class("prov:Activity")),
              Step(event_uri, RdfType, Class("crm:E12_Production")),
              IF d.type = Absent THEN Raise
              ELSE Step(event_uri, "rdfs:label", Lit(LexicalOf(PyStr(d.type)))),
              UriStep(event_uri, "crm:P14_carried_out_by", d.artist_uri),
              UriStep(event_uri, "crm:P7_took_place_at", d.location_uri),
              UriStep(event_uri, "crm:P108_has_produced", d.artwork_uri),
              IF d.date = Absent THEN Raise
              ELSE Step(event_uri, "crm:P4_has_time_span",
                        Lit(LexicalOf(PyStr(d.date)))),
              UriStep(event_uri, "crm:P109_has_current_or_former_curator",
                      d.provider_uri),
              UriStep(event_uri, "crm:P50i_is_currently_held_by",
                      d.institute_uri)>>, k))
    IN [graph |-> g \cup r.added, ret |-> r.ok, failed |-> ~r.ok, raised |-> FALSE]

----------------------------------------------------------------------------
(* DataImporter: the registry (find-or-create) and _parse_edm_cho.  The    *)
(* importer's mutable state is passed as a record                          *)
(* [graph, artists, locations, entities, nextId, epoch, log, fault].       *)

UnknownArtist == <<"U", "n", "k", "n", "o", "w", "n", " ", "A", "r", "t", "i", "s", "t">>
UnknownLocation == <<"U", "n", "k", "n", "o", "w", "n", " ", "L", "o", "c", "a", "t", "i", "o", "n">>
UnknownName == <<"U", "n", "k", "n", "o", "w", "n">>
Creation == <<"c", "r", "e", "a", "t", "i", "o", "n">>

\* an XML element: its text (None when it has none) and its rdf:resource
Elem(text, resource) == [text |-> text, resource |-> resource]

\* the elements of a sequence that satisfy having text
WithText(elems) == SelectSeq(elems, LAMBDA e : ~Falsy(e.text))

\* _parse_edm_cho.get_text: ", ".join of the texts that are not empty
GetText(elems) ==
    JoinWith(<<",", " ">>, [i \in 1..Len(WithText(elems)) |-> WithText(elems)[i].text])

\* _parse_edm_cho.get_attr: the first rdf:resource that is not empty, or None
GetAttr(elems) ==
    LET withRes == SelectSeq(elems, LAMBDA e : ~Falsy(e.resource))
    IN IF withRes = <<>> THEN None ELSE withRes[1].resource

\* the cache never consulted
InCacheNever(key, cache) == FALSE

\* the test `key in self.created_xxx`
InCache(key, cache) == key \in DOMAIN cache

\* uuid4(): a value no earlier call returned
Mint(st) == st.nextId

\* the record of one minted node in the log
LogEntry(st, kind, name, link, uri) ==
    [epoch |-> st.epoch, kind |-> kind, key |-> <<name, link>>, uri |-> uri]

\* a cache hit that writes the repeated record's values onto the cached node
FindOrCreateArtistRefreshing(st, name0, creator_ulan) ==
    LET creator_name == IF Falsy(name0) THEN UnknownArtist ELSE name0
        hit == InCache(creator_name, st.artists)
        artist_uri == IF hit THEN st.artists[creator_name]
                      ELSE Uri("artist", Mint(st))
        r == AddArtist(st.graph, artist_uri,
                       [creator |-> creator_name, creatorULAN |-> creator_ulan],
                       FaultAt(st.fault, "add_artist"))
        minted == [st EXCEPT !.graph = r.graph,
                             !.nextId = IF hit THEN @ ELSE @ + 1]
    IN IF r.ret
       THEN [st |-> [minted EXCEPT
                        !.artists = (creator_name :> artist_uri) @@ @,
                        !.log = @ \cup {LogEntry(st, "artist", creator_name,
                                                 <<>>, artist_uri)}],
             uri |-> artist_uri]
       ELSE [st |-> minted, uri |-> NoUri]

\* DataImporter._find_or_create_artist
FindOrCreateArtist(st, name0, creator_ulan) ==
    LET creator_name == IF Falsy(name0) THEN UnknownArtist ELSE name0
        artist_uri == Uri("artist", Mint(st))
        r == AddArtist(st.graph, artist_uri,
                       [creator |-> creator_name, creatorULAN |-> creator_ulan],
                       FaultAt(st.fault, "add_artist"))
        minted == [st EXCEPT !.graph = r.graph, !.nextId = @ + 1]
    IN IF InCache(creator_name, st.artists)
       THEN [st |-> st, uri |-> st.artists[creator_name]]
       ELSE IF r.ret
       THEN [st |-> [minted EXCEPT
                        !.artists = (creator_name :> artist_uri) @@ @,
                        !.log = @ \cup {LogEntry(st, "artist", creator_name,
                                                 <<>>, artist_uri)}],
             uri |-> artist_uri]
       ELSE [st |-> minted, uri |-> NoUri]

\* DataImporter._find_or_create_location; location_names is what the caller
\* passes: the joined text of the dcterms:spatial elements, a str
FindOrCreateLocation(st, names0, location_tgn) ==
    LET location_names == IF FalsyVal(names0) THEN PyList(<<UnknownLocation>>)
                          ELSE names0
        location_key == FirstOf(location_names)
        location_uri == Uri("location", Mint(st))
        r == AddLocation(st.graph, location_uri,
                         [location |-> location_names, locationTGN |-> location_tgn],
                         FaultAt(st.fault, "add_location"))
        minted == [st EXCEPT !.graph = r.graph, !.nextId = @ + 1]
    IN IF InCache(location_key, st.locations)
       THEN [st |-> st, uri |-> st.locations[location_key]]
       ELSE IF r.ret
       THEN [st |-> [minted EXCEPT
                        !.locations = (location_key :> location_uri) @@ @,
                        !.log = @ \cup {LogEntry(st, "location", location_key,
                                                 <<>>, location_uri)}],
             uri |-> location_uri]
       ELSE [st |-> minted, uri |-> NoUri]

\* the id returned whatever add_entity returned
FindOrCreateEntityUnchecked(st, entity_type, name0, link) ==
    LET name == IF Falsy(name0) THEN UnknownName ELSE name0
        entity_key == <<name, link>>
        entity_uri == Uri("attributes", Mint(st))
        r == AddEntity(st.graph, entity_type, entity_uri, name, link,
                       FaultAt(st.fault, "add_entity"))
        minted == [st EXCEPT !.graph = r.graph, !.nextId = @ + 1]
    IN IF InCache(entity_key, st.entities)
       THEN [st |-> st, uri |-> st.entities[entity_key]]
       ELSE IF r.ret
       THEN [st |-> [minted EXCEPT
                        !.entities = (entity_key :> entity_uri) @@ @,
                        !.log = @ \cup {LogEntry(st, entity_type, name, link,
                                                 entity_uri)}],
             uri |-> entity_uri]
       ELSE [st |-> minted, uri |-> entity_uri]

\* DataImporter._find_or_create_entity
FindOrCreateEntity(st, entity_type, name0, link) ==
    LET name == IF Falsy(name0) THEN UnknownName ELSE name0
        entity_key == <<name, link>>
        entity_uri == Uri("attributes", Mint(st))
        r == AddEntity(st.graph, entity_type, entity_uri, name, link,
                       FaultAt(st.fault, "add_entity"))
        minted == [st EXCEPT !.graph = r.graph, !.nextId = @ + 1]
    IN IF InCache(entity_key, st.entities)
       THEN [st |-> st, uri |-> st.entities[entity_key]]
       ELSE IF r.ret
       THEN [st |-> [minted EXCEPT
                        !.entities = (entity_key :> entity_uri) @@ @,
                        !.log = @ \cup {LogEntry(st, entity_type, name, link,
                                                 entity_uri)}],
             uri |-> entity_uri]
       ELSE [st |-> minted, uri |-> NoUri]

\* the artwork id derived from the identifier instead of uuid4()
ArtworkUriByIdentifier(st, inventoryNumber) == Uri("artwork", Len(inventoryNumber))

\* artwork_uri: a fresh uuid4 for every record, whatever its identifier
ArtworkUri(st, inventoryNumber) == Uri("artwork", Mint(st))

\* the identifier test left out
MissingIdentifierNever(inventoryNumber) == FALSE

\* the test of the required dc:identifier: `if not inventoryNumber`
MissingIdentifier(inventoryNumber) == Falsy(inventoryNumber)

\* `or` in place of `and`
BothResolvedEither(artist_uri, location_uri) ==
    artist_uri # NoUri \/ location_uri # NoUri

\* the test before the creation event: `if artist_uri and location_uri`
BothResolved(artist_uri, location_uri) ==
    artist_uri # NoUri /\ location_uri # NoUri

\* the aggregation paired with the record (aggregations.get(artwork_id)),
\* as a sequence of at most one element; its fields when there is none
AggField(agg, field) == IF agg = <<>> THEN <<>> ELSE agg[1][field]

\* a result of _parse_edm_cho: the importer's state after it, what it
\* returned ("true", "false") or that it raised, and the ids it resolved
ChoResult(st, ret, artist, location, artwork, event, event_ret) ==
    [st |-> st, ret |-> ret, artist_uri |-> artist, location_uri |-> location,
     artwork_uri |-> artwork, event_uri |-> event, event_ret |-> event_ret]

\* the one element of a singleton: {e : x \in {v}} names the value v as x
\* in e, the way a local variable of the code holds a value once computed
The(S) == CHOOSE x \in S : TRUE

\* DataImporter._parse_edm_cho from add_artwork on: the artwork, then the
\* creation event when both the artist and the location were resolved
CommitArtwork(st, cho, inventoryNumber, image_url, a, l, t, s, m, p, i) ==
    LET artwork_uri == ArtworkUri(st, inventoryNumber)
        w == AddArtwork(st.graph, artwork_uri,
                        [inventoryNumber |-> inventoryNumber,
                         title |-> GetText(cho.title),
                         imageURL |-> image_url,
                         type_uri |-> t,
                         subject_uri |-> s,
                         material_uri |-> m],
                        FaultAt(st.fault, "add_artwork"))
        stw == [st EXCEPT !.graph = w.graph, !.nextId = @ + 1]
        event_uri == Uri("event", Mint(stw))
        e == AddProvenanceEvent(stw.graph, event_uri,
                                [type |-> Creation,
                                 artwork_uri |-> artwork_uri,
                                 artist_uri |-> a,
                                 location_uri |-> l,
                                 date |-> GetText(cho.created),
                                 provider_uri |-> p,
                                 institute_uri |-> i],
                                FaultAt(st.fault, "add_provenance_event"))
        ste == [stw EXCEPT !.graph = e.graph, !.nextId = @ + 1]
    IN IF ~w.ret
       THEN ChoResult(stw, "false", a, l, artwork_uri, NoUri, FALSE)
       ELSE IF BothResolved(a, l)
       THEN ChoResult(ste, "true", a, l, artwork_uri, event_uri, e.ret)
       ELSE ChoResult(stw, "true", a, l, artwork_uri, NoUri, FALSE)

\* DataImporter._parse_edm_cho.  The resolutions run in the order of the
\* code: artist (a), location (l), type (t), subject (s), material (m),
\* provider (p), institute (i); each starts from the state the one before
\* it left (read the binders from the bottom up).
ParseEdmCho(st0, cho, agg) ==
    LET inventoryNumber == GetText(cho.identifier)
        provider_wikidata_link == IF agg = <<>> THEN None
                                  ELSE GetAttr(AggField(agg, "provider"))
        institute_name == IF agg = <<>> THEN None
                          ELSE GetText(AggField(agg, "dataProvider"))
        image_url == IF agg = <<>> THEN None
                     ELSE GetAttr(AggField(agg, "isShownBy"))
    IN IF MissingIdentifier(inventoryNumber)
       THEN ChoResult(st0, "false", NoUri, NoUri, NoUri, NoUri, FALSE)
       ELSE The({
          IF st0.fault.op = "resolve"
          THEN ChoResult(a.st, "raise", a.uri, NoUri, NoUri, NoUri, FALSE)
          ELSE The({ The({ The({ The({ The({ The({
              CommitArtwork(i.st, cho, inventoryNumber, image_url,
                            a.uri, l.uri, t.uri, s.uri, m.uri, p.uri, i.uri)
            : i \in {IF ~Falsy(institute_name)
                     THEN FindOrCreateEntity(p.st, "institute", institute_name, None)
                     ELSE [st |-> p.st, uri |-> NoUri]} })
            : p \in {IF ~Falsy(provider_wikidata_link)
                     THEN FindOrCreateEntity(m.st, "provider", <<>>,
                                             provider_wikidata_link)
                     ELSE [st |-> m.st, uri |-> NoUri]} })
            : m \in {FindOrCreateEntity(s.st, "material", GetText(cho.medium),
                                        GetAttr(cho.medium))} })
            : s \in {FindOrCreateEntity(t.st, "subject", GetText(cho.subject),
                                        GetAttr(cho.subject))} })
            : t \in {FindOrCreateEntity(l.st, "type", GetText(cho.type),
                                        GetAttr(cho.type))} })
            : l \in {FindOrCreateLocation(a.st, PyStr(GetText(cho.spatial)),
                                          GetAttr(cho.spatial))} })
          : a \in {FindOrCreateArtist(st0, GetText(cho.creator),
                                      GetAttr(cho.creator))} })

----------------------------------------------------------------------------
(* Bounds and inputs *)

\* records visited by import loops in one behaviour of Spec
MaxRecords == 2

\* import calls that parse their document, in one behaviour
MaxCalls == 2

\* errors[:10]
ErrorSample == 10

INV1 == <<"I", "N", "V", "-", "0", "0", "1">>
INV2 == <<"I", "N", "V", "-", "0", "0", "2">>
Ion == <<"I", "o", "n", " ", "A", "n", "d", "r", "e", "e", "s", "c", "u">>
Ana == <<"A", "n", "a">>
Bucharest == <<"B", "u", "c", "h", "a", "r", "e", "s", "t">>
Brasov == <<"B", "r", "a", "s", "o", "v">>
Cluj == <<"C", "l", "u", "j">>
Pictura == <<"p", "i", "c", "t", "u", "r", "a">>
Ulei == <<"u", "l", "e", "i">>
Peisaj == <<"p", "e", "i", "s", "a", "j">>
Vara == <<"V", "a", "r", "a">>
Year == <<"1", "8", "8", "0">>
Muzeu == <<"M", "N", "A", "R">>
Aat1 == <<"a", "a", "t", ":", "1">>
Wd1 == <<"w", "d", ":", "Q", "1">>
Img1 == <<"i", "m", "g", ":", "1">>

\* a field with one element that has text and no rdf:resource
One(text) == <<Elem(text, None)>>

\* an edm:ProvidedCHO element: each field the sequence of its child elements
Cho(identifier, creator, spatial, type, subject, medium) ==
    [identifier |-> identifier, creator |-> creator, spatial |-> spatial,
     type |-> type, subject |-> subject, medium |-> medium,
     title |-> One(Vara), created |-> One(Year)]

\* an ore:Aggregation element
Agg(provider, dataProvider, isShownBy) ==
    [provider |-> provider, dataProvider |-> dataProvider, isShownBy |-> isShownBy]

\* a record of the document: the CHO and the aggregation paired with it
Entry(cho, agg) == [cho |-> cho, agg |-> agg]

\* Scenario A of the specification: identifier, creator, spatial, type
ScenarioA == Entry(Cho(One(INV1), One(Ion), One(Bucharest), One(Pictura), <<>>, <<>>),
                   <<>>)

\* Scenario B: another identifier, the same creator and spatial values
ScenarioB == Entry(Cho(One(INV2), One(Ion), One(Bucharest), One(Pictura), <<>>, <<>>),
                   <<>>)

\* records without the required identifier: no dc:identifier element at all,
\* and an empty one in an otherwise empty record
NoIdRecords ==
    {Entry(Cho(<<>>, One(Ana), One(Cluj), One(Pictura), <<>>, <<>>), <<>>),
     Entry([Cho(<<Elem(None, None)>>, <<>>, <<>>, <<>>, <<>>, <<>>) EXCEPT
               !.title = <<>>, !.created = <<>>], <<>>)}

\* records that differ in the creator and in the dcterms:spatial elements
PeopleRecords ==
    {Entry(Cho(One(INV1), x[1], x[2], One(Pictura), <<>>, <<>>), <<>>) :
        x \in {<< <<>>, One(Bucharest) >>,
               << One(Ana), One(Cluj) >>,
               << One(Ion), <<>> >>,
               << One(Ion), One(Brasov) >>}}

\* a record with type, subject and material, type and material alike
AttributeRecords ==
    {Entry(Cho(One(INV2), One(Ion), One(Bucharest), <<Elem(Ulei, Aat1)>>,
               One(Peisaj), <<Elem(Ulei, Aat1)>>), <<>>)}

\* a record that comes with an aggregation: provider, institute and image
AggRecords ==
    {Entry(Cho(One(INV1), One(Ion), One(Bucharest), One(Pictura), <<>>, <<>>),
           <<g>>) :
        g \in {Agg(<<Elem(None, Wd1)>>, One(Muzeu), <<Elem(None, Img1)>>)}}

\* the records a document of Spec is made of
Records ==
    {ScenarioA, ScenarioB} \cup NoIdRecords \cup PeopleRecords
    \cup AttributeRecords \cup AggRecords

\* an XML document as import_edm_xml sees it: whether ET.fromstring parses
\* it, and how many edm:ProvidedCHO elements findall returns
Xml(wellFormed, len) == [wellFormed |-> wellFormed, len |-> len]

----------------------------------------------------------------------------
(* DataImporter: import_from_url, import_edm_xml *)

EmptyMap == [x \in {} |-> NoUri]

\* what the caller asked for: how the download went ("none" when the
\* document was passed in), the format, whether the document parses
Request(download, format, wellFormed) ==
    [download |-> download, format |-> format, wellFormed |-> wellFormed]

NoSummary ==
    [status |-> "none", imported |-> 0, errors |-> 0, error_details |-> <<>>,
     request |-> Request("none", "none", TRUE)]

\* a marker for lastOp: the step was not a direct Store call or a query
NotAStoreCall ==
    [op |-> "none", ret |-> "none", failed |-> FALSE, rows |-> {},
     args |-> <<>>, data |-> <<>>]

\* the threads that share one DataImporter
Callers == {1, 2}

\* a caller that is not inside _find_or_create_artist
Outside(calls, uri) ==
    [pc |-> "outside", creator_name |-> <<>>, creator_ulan |-> None,
     artist_uri |-> uri, calls |-> calls]

\* no caller has called yet
NoRace ==
    [at |-> [t \in Callers |-> Outside(0, NoUri)], overlapped |-> FALSE,
     served |-> {}]

Init ==
    /\ graph = {}
    /\ created_artists = EmptyMap
    /\ created_locations = EmptyMap
    /\ created_entities = EmptyMap
    /\ nextId = 1
    /\ epoch = 1
    /\ call = 0
    /\ pc = "idle"
    /\ docLen = 0
    /\ todo = 0
    /\ errors = <<>>
    /\ imported_count = 0
    /\ outcomes = <<>>
    /\ summary = NoSummary
    /\ mintLog = {}
    /\ lastOp = NotAStoreCall
    /\ race = NoRace

\* the text of the first dc:identifier element, as the error string shows it
FirstIdentifierText(cho) ==
    IF cho.identifier = <<>> THEN <<"u", "n", "k", "n", "o", "w", "n">>
    ELSE IF cho.identifier[1].text = None THEN NoneText
    ELSE cho.identifier[1].text

\* the error string of a record whose _parse_edm_cho returned False
FailedMessage(cho) ==
    <<"Failed to import artwork with identifier: ">> \o FirstIdentifierText(cho)

\* the error string of a record whose _parse_edm_cho raised
ExceptionMessage == <<"Exception: ">> \o <<"f", "a", "u", "l", "t">>

\* the whole list
ErrorDetailsAll(errs) == errs

\* errors[:10]
ErrorDetails(errs) == SubSeq(errs, 1, IF Len(errs) < ErrorSample THEN Len(errs)
                                      ELSE ErrorSample)

\* the call raised: nothing but the caller's view changes
RaiseToCaller(req) ==
    /\ summary' = [NoSummary EXCEPT !.status = "raised", !.request = req]
    /\ lastOp' = NotAStoreCall
    /\ UNCHANGED race
    /\ UNCHANGED <<graph, created_artists, created_locations, created_entities,
                   nextId, epoch, call, pc, docLen, todo, errors, imported_count,
                   outcomes, mintLog>>

\* import_edm_xml up to the loop: parse, reset the counters
EnterLoop(xml, req) ==
    /\ pc' = "running"
    /\ docLen' = xml.len
    /\ todo' = xml.len
    /\ errors' = <<>>
    /\ imported_count' = 0
    /\ summary' = [NoSummary EXCEPT !.status = "pending", !.request = req]
    /\ call' = call + 1
    /\ lastOp' = NotAStoreCall
    /\ UNCHANGED race
    /\ UNCHANGED <<graph, created_artists, created_locations, created_entities,
                   nextId, epoch, outcomes, mintLog>>

\* DataImporter.import_edm_xml, called with a document
ImportEdmXml(xml) ==
    /\ pc = "idle"
    /\ call < MaxCalls
    /\ IF xml.wellFormed
       THEN EnterLoop(xml, Request("none", "edm", TRUE))
       ELSE RaiseToCaller(Request("none", "edm", FALSE))

\* response.raise_for_status() left out
DownloadOkNoStatusCheck(download) == download \in {"ok", "status"}

\* requests.get returned and raise_for_status did not raise
DownloadOk(download) == download = "ok"

\* the format import_from_url knows
FormatSupported(format) == format = "edm"

\* DataImporter.import_from_url: the download, the format, then the import
ImportFromUrl(download, format, xml) ==
    /\ pc = "idle"
    /\ call < MaxCalls
    /\ IF DownloadOk(download) /\ FormatSupported(format) /\ xml.wellFormed
       THEN EnterLoop(xml, Request(download, format, TRUE))
       ELSE RaiseToCaller(Request(download, format, xml.wellFormed))

\* an exception of a record ends the loop
LoopStopsOnRaise(ret) == ret # "raise"

\* the try/except around each record: whatever _parse_edm_cho did, returned
\* or raised, the loop goes on to the next record
LoopContinues(ret) == TRUE

\* what the loop records about one visited record
Outcome(entry, flt, r) ==
    [entry |-> entry, fault |-> flt, epoch |-> epoch, call |-> call,
     ret |-> r.ret, artist_uri |-> r.artist_uri, location_uri |-> r.location_uri,
     artwork_uri |-> r.artwork_uri, event_uri |-> r.event_uri,
     event_ret |-> r.event_ret]

\* a turn of the loop that leaves a record that failed in place, to be
\* tried again
ProcessRecordRetrying(entry, flt) ==
    /\ pc = "running"
    /\ todo > 0
    /\ \E r \in {ParseEdmCho([graph |-> graph, artists |-> created_artists,
                              locations |-> created_locations,
                              entities |-> created_entities, nextId |-> nextId,
                              epoch |-> epoch, log |-> mintLog, fault |-> flt],
                             entry.cho, entry.agg)} :
          /\ graph' = r.st.graph
          /\ created_artists' = r.st.artists
          /\ created_locations' = r.st.locations
          /\ created_entities' = r.st.entities
          /\ nextId' = r.st.nextId
          /\ mintLog' = r.st.log
          /\ imported_count' = IF r.ret = "true" THEN imported_count + 1
                               ELSE imported_count
          /\ errors' = CASE r.ret = "true" -> errors
                         [] r.ret = "false" -> Append(errors, FailedMessage(entry.cho))
                         [] OTHER -> Append(errors, ExceptionMessage)
          /\ outcomes' = Append(outcomes, Outcome(entry, flt, r))
          /\ pc' = IF LoopContinues(r.ret) THEN pc ELSE "idle"
          /\ summary' = IF LoopContinues(r.ret) THEN summary
                        ELSE [NoSummary EXCEPT !.status = "raised",
                                               !.request = summary.request]
    /\ todo' = IF ParseEdmCho([graph |-> graph, artists |-> created_artists,
                               locations |-> created_locations,
                               entities |-> created_entities, nextId |-> nextId,
                               epoch |-> epoch, log |-> mintLog, fault |-> flt],
                              entry.cho, entry.agg).ret = "true"
                THEN todo - 1 ELSE todo
    /\ lastOp' = NotAStoreCall
    /\ UNCHANGED race
    /\ UNCHANGED <<epoch, call, docLen>>

\* one turn of the loop of import_edm_xml over the next record
ProcessRecord(entry, flt) ==
    /\ pc = "running"
    /\ todo > 0
    /\ \E r \in {ParseEdmCho([graph |-> graph, artists |-> created_artists,
                              locations |-> created_locations,
                              entities |-> created_entities, nextId |-> nextId,
                              epoch |-> epoch, log |-> mintLog, fault |-> flt],
                             entry.cho, entry.agg)} :
          /\ graph' = r.st.graph
          /\ created_artists' = r.st.artists
          /\ created_locations' = r.st.locations
          /\ created_entities' = r.st.entities
          /\ nextId' = r.st.nextId
          /\ mintLog' = r.st.log
          /\ imported_count' = IF r.ret = "true" THEN imported_count + 1
                               ELSE imported_count
          /\ errors' = CASE r.ret = "true" -> errors
                         [] r.ret = "false" -> Append(errors, FailedMessage(entry.cho))
                         [] OTHER -> Append(errors, ExceptionMessage)
          /\ outcomes' = Append(outcomes, Outcome(entry, flt, r))
          /\ pc' = IF LoopContinues(r.ret) THEN pc ELSE "idle"
          /\ summary' = IF LoopContinues(r.ret) THEN summary
                        ELSE [NoSummary EXCEPT !.status = "raised",
                                               !.request = summary.request]
    /\ todo' = todo - 1
    /\ lastOp' = NotAStoreCall
    /\ UNCHANGED race
    /\ UNCHANGED <<epoch, call, docLen>>

\* the summary that counts the errors it shows
ReturnSummarySampled ==
    /\ pc = "running"
    /\ todo = 0
    /\ pc' = "idle"
    /\ summary' = [status |-> "returned", imported |-> imported_count,
                   errors |-> Len(ErrorDetails(errors)),
                   error_details |-> ErrorDetails(errors),
                   request |-> summary.request]
    /\ lastOp' = NotAStoreCall
    /\ UNCHANGED race
    /\ UNCHANGED <<graph, created_artists, created_locations, created_entities,
                   nextId, epoch, call, docLen, todo, errors, imported_count,
                   outcomes, mintLog>>

\* the end of import_edm_xml: the summary
ReturnSummary ==
    /\ pc = "running"
    /\ todo = 0
    /\ pc' = "idle"
    /\ summary' = [status |-> "returned", imported |-> imported_count,
                   errors |-> Len(errors), error_details |-> ErrorDetails(errors),
                   request |-> summary.request]
    /\ lastOp' = NotAStoreCall
    /\ UNCHANGED race
    /\ UNCHANGED <<graph, created_artists, created_locations, created_entities,
                   nextId, epoch, call, docLen, todo, errors, imported_count,
                   outcomes, mintLog>>

\* DataImporter.__init__: a new importer over the same store (at most one
\* more importer than there were import calls)
NewImporter ==
    /\ pc = "idle"
    /\ epoch <= call
    /\ epoch' = epoch + 1
    /\ created_artists' = EmptyMap
    /\ created_locations' = EmptyMap
    /\ created_entities' = EmptyMap
    /\ lastOp' = NotAStoreCall
    /\ UNCHANGED race
    /\ UNCHANGED <<graph, nextId, call, pc, docLen, todo, errors, imported_count,
                   outcomes, summary, mintLog>>

\* records visited with a store fault in one behaviour of SpecFault
MaxFaults == 1

\* the documents that parse: as many records as the bound still allows
Documents == {Xml(TRUE, n) : n \in 0..(MaxRecords - Len(outcomes))}

\* a document ET.fromstring rejects
Malformed == Xml(FALSE, 0)

Downloads == {"ok", "timeout", "transport", "status"}
Formats == {"edm", "csv"}

Next ==
    \/ \E xml \in Documents : ImportEdmXml(xml)
    \/ \E entry \in Records : ProcessRecord(entry, NoFault)
    \/ ReturnSummary
    \/ NewImporter

Spec == Init /\ [][Next]_vars

----------------------------------------------------------------------------
(* SpecFault: imports that fail.  The call fails as a whole (download,     *)
(* format, unparsable document), or the store raises in a graph.add while  *)
(* a record is processed, or the resolution of a record raises.            *)

\* which graph.add of the operation raises: its first one, or a later one
FaultPositions == {1, 4}

Faults ==
    {[op |-> o, at |-> k] :
        o \in {"add_artist", "add_location", "add_entity", "add_artwork",
               "add_provenance_event"},
        k \in FaultPositions}
    \cup {[op |-> "resolve", at |-> 0]}

\* the record of Scenario A with an aggregation: provider, institute, image
ScenarioAgg ==
    Entry(ScenarioA.cho,
          <<Agg(<<Elem(None, Wd1)>>, One(Muzeu), <<Elem(None, Img1)>>)>>)

FaultRecords == {ScenarioA, ScenarioAgg}

FaultsSoFar == Cardinality({i \in DOMAIN outcomes : outcomes[i].fault # NoFault})

\* one turn of the loop during which the store or the resolution raises
ProcessFaulty(entry, flt) ==
    /\ FaultsSoFar < MaxFaults
    /\ ProcessRecord(entry, flt)

\* one call of SpecFault enters the loop; calls that fail come before and after
NextFault ==
    \/ \E xml \in Documents \cup {Malformed} :
          /\ xml # Malformed => call = 0
          /\ ImportEdmXml(xml)
    \/ \E d \in Downloads, f \in Formats, xml \in Documents \cup {Malformed} :
          /\ d \in {"timeout", "transport"} => (f = "edm" /\ xml = Malformed)
          /\ f # "edm" => xml = Malformed
          /\ xml # Malformed => call = 0
          /\ ImportFromUrl(d, f, xml)
    \/ \E entry \in FaultRecords : ProcessRecord(entry, NoFault)
    \/ \E entry \in FaultRecords, flt \in Faults : ProcessFaulty(entry, flt)
    \/ ReturnSummary

SpecFault == Init /\ [][NextFault]_vars

----------------------------------------------------------------------------
(* SpecBatch: one import call over a long document.  Most records are the  *)
(* one without a dc:identifier element; a few are of another kind: an      *)
(* empty identifier, a good record, a record whose processing raises.      *)

\* records of the longest document
MaxBatch == 11

\* records of a document that are not the plain one
MaxVaried == 2

\* the record without a dc:identifier element
PlainRecord == Entry(Cho(<<>>, One(Ana), One(Cluj), One(Pictura), <<>>, <<>>), <<>>)

\* the record with an empty dc:identifier element
EmptyIdRecord ==
    Entry([Cho(<<Elem(None, None)>>, <<>>, <<>>, <<>>, <<>>, <<>>) EXCEPT
              !.title = <<>>, !.created = <<>>], <<>>)

VariedRecords ==
    {[entry |-> EmptyIdRecord, fault |-> NoFault],
     [entry |-> ScenarioA, fault |-> NoFault],
     [entry |-> ScenarioA, fault |-> [op |-> "resolve", at |-> 0]]}

VariedSoFar == Cardinality({i \in DOMAIN outcomes : outcomes[i].entry # PlainRecord})

BatchLengths == {0, 1, MaxBatch - 1, MaxBatch}

\* the call of SpecBatch
ImportBatch(n) ==
    /\ call = 0
    /\ ImportEdmXml(Xml(TRUE, n))

\* one turn of the loop over a record of the document
BatchStep ==
    \/ ProcessRecord(PlainRecord, NoFault)
    \/ \E v \in VariedRecords :
          /\ VariedSoFar < MaxVaried
          /\ ProcessRecord(v.entry, v.fault)

NextBatch ==
    \/ \E n \in BatchLengths : ImportBatch(n)
    \/ BatchStep
    \/ ReturnSummary

SpecBatch == Init /\ [][NextBatch]_vars

\* the loop and the return are straight-line code of one call: once
\* started, the interpreter keeps executing them
SpecBatchFair == SpecBatch /\ WF_vars(BatchStep) /\ WF_vars(ReturnSummary)

----------------------------------------------------------------------------
(* RDFStoreService: the queries.  graph.query evaluates the SELECT over    *)
(* the graph; a solution binds each variable to a node or leaves it        *)
(* unbound.  Where the order of the solutions is left to the iteration     *)
(* order of the graph, an operator gives the set of the possible results.  *)

\* the nodes of the graph typed with a class
Subjects(g, cls) == {t[1] : t \in {u \in g : u[2] = RdfType /\ u[3] = Class(cls)}}

\* the objects of the statements of a subject and predicate
Objects(g, s, p) == {t[3] : t \in {u \in g : u[1] = s /\ u[2] = p}}

\* the limit of get_all_artworks when the caller gives none
DefaultLimit == 20

\* a variable that the solution does not bind (row.x is None)
Unbound == [k |-> "unbound", n |-> 0, s |-> <<>>]

\* the solutions of an OPTIONAL block: those of its pattern, or, when it
\* has none, the one that binds nothing
Optional(S, none) == IF S = {} THEN {none} ELSE S

\* an id with a space in it: a uri built from it is not the text of an
\* IRI, and the query built with that uri does not parse
BadId == 0 - 1
NotAnIri(uri) == uri.n = BadId

\* the test left out: every value counts as set
TruthyAlways(v) == TRUE

\* `if row.x`: the variable is bound, and to a text that is not empty
Truthy(v) == v # Unbound /\ (v.k \in {"lit", "ext"} => v.s # <<>>)

\* `str(row.x) if row.x else None` for a literal or an external link
StrOrNone(v) == IF Truthy(v) THEN v.s ELSE None

\* the same for a node of the graph
UriOrNone(v) == IF Truthy(v) THEN v ELSE NoUri

\* the dict of filters a caller passes; a key it does not hold reads as
\* None (NoUri for a uri)
NoFilters ==
    [type |-> None, type_uri |-> NoUri, material_uri |-> NoUri,
     subject_uri |-> NoUri, artist_uri |-> NoUri, location_uri |-> NoUri]

\* ?artwork a prov:Entity ; a crm:E22_Man_Made_Object
IsArtwork(g, w) ==
    /\ <<w, RdfType, Class("prov:Entity")>> \in g
    /\ <<w, RdfType, Class("crm:E22_Man_Made_Object")>> \in g

\* ?artwork crm:P2_has_type ?type . ?type rdfs:label ?typeLabel .
\* FILTER(CONTAINS(LCASE(?typeLabel), "k1") || ...)
TypeMatches(g, w, type) ==
    \E t \in Objects(g, w, "crm:P2_has_type") :
        \E label \in Objects(g, t, "rdfs:label") :
            \E k \in TYPE_KEYWORDS(Lower(type)) : Contains(Lower(label.s), k)

\* ?event crm:P108_has_produced ?artwork, carried out by the artist and
\* taking place at the location when asked: the two clauses share ?event
ProducedBy(g, w, artist_uri, location_uri) ==
    \E e \in {t[1] : t \in {u \in g : u[2] = "crm:P108_has_produced" /\ u[3] = w}} :
        /\ artist_uri # NoUri => <<e, "crm:P14_carried_out_by", artist_uri>> \in g
        /\ location_uri # NoUri => <<e, "crm:P7_took_place_at", location_uri>> \in g

\* the clauses with the keyword filter alone, the link filters dropped
FilterClausesTypeOnly(g, w, filters) ==
    ~Falsy(filters.type) => TypeMatches(g, w, filters.type)

\* filter_clauses: the clauses get_all_artworks adds for the keys of the
\* dict it reads; it reads no key type_uri
FilterClauses(g, w, filters) ==
    /\ ~Falsy(filters.type) => TypeMatches(g, w, filters.type)
    /\ filters.material_uri # NoUri =>
          <<w, "crm:P45_consists_of", filters.material_uri>> \in g
    /\ filters.subject_uri # NoUri =>
          <<w, "crm:P15_was_influenced_by", filters.subject_uri>> \in g
    /\ (filters.artist_uri # NoUri \/ filters.location_uri # NoUri) =>
          ProducedBy(g, w, filters.artist_uri, filters.location_uri)

\* the objects ?x of  s p ?node . ?node crm:P190_has_symbolic_content ?x
SymbolicContent(g, s, p) ==
    UNION {Objects(g, node, "crm:P190_has_symbolic_content") :
              node \in Objects(g, s, p)}

\* the solutions of the three OPTIONAL blocks for one artwork
ListSolutions(g, w) ==
    {[artwork |-> w, identifier |-> i, title |-> t, imageURL |-> m] :
        i \in Optional(SymbolicContent(g, w, "crm:P1_is_identified_by"), Unbound),
        t \in Optional(SymbolicContent(g, w, "crm:P102_has_title"), Unbound),
        m \in Optional(Objects(g, w, "foaf:depiction"), Unbound)}

\* search_filter: FILTER(CONTAINS(LCASE(?title), LCASE("search"))); an
\* unbound ?title makes the filter fail (the search text has no quote)
SearchFilter(r, search) ==
    ~Falsy(search) =>
        r.title # Unbound /\ Contains(Lower(r.title.s), Lower(search))

\* SELECT DISTINCT ?artwork ?identifier ?title ?imageURL WHERE { ... }
Solutions(g, filters, search) ==
    UNION {{r \in ListSolutions(g, w) : SearchFilter(r, search)} :
              w \in {x \in {t[1] : t \in g} :
                        IsArtwork(g, x) /\ FilterClauses(g, x, filters)}}

\* the solutions in the order they were created
PrecedesByCreation(a, b) == a.artwork.n < b.artwork.n

\* ORDER BY ?identifier: a solution without identifier comes first, the
\* literals follow by their text
Precedes(a, b) ==
    \/ a.identifier = Unbound /\ b.identifier # Unbound
    \/ /\ a.identifier # Unbound
       /\ b.identifier # Unbound
       /\ StrLess(a.identifier.s, b.identifier.s)

RECURSIVE Orders(_)
\* the sequences the sort can give: solutions of equal key stay in the
\* order the graph yielded them, which is any order
Orders(S) ==
    UNION {IF left = {} THEN {<<>>}
           ELSE UNION {{<<r>> \o rest : rest \in Orders(left \ {r})} :
                          r \in {x \in left : \A y \in left : ~Precedes(y, x)}} :
              left \in {S}}

\* LIMIT {limit} OFFSET {skip}
Slice(seq, limit, skip) ==
    IF skip >= Len(seq) \/ limit = 0 THEN <<>>
    ELSE SubSeq(seq, skip + 1,
                IF skip + limit < Len(seq) THEN skip + limit ELSE Len(seq))

\* artwork_data of one row; the id is the last segment of the uri
ArtworkData(r) ==
    [id |-> r.artwork.n, uri |-> r.artwork,
     inventoryNumber |-> StrOrNone(r.identifier),
     title |-> StrOrNone(r.title),
     imageURL |-> StrOrNone(r.imageURL)]

\* the query text does not parse: a uri of the filters is no IRI
QueryRejected(filters) ==
    \E f \in {"material_uri", "subject_uri", "artist_uri", "location_uri"} :
        NotAnIri(filters[f])

\* RDFStoreService.get_all_artworks: the lists it can return; [] when
\* graph.query raises
GetAllArtworks(g, filters, search, limit, skip) ==
    IF QueryRejected(filters) THEN {<<>>}
    ELSE {[i \in DOMAIN Slice(o, limit, skip) |->
              ArtworkData(Slice(o, limit, skip)[i])] :
             o \in Orders(Solutions(g, filters, search))}

\* ArtworkType.from_text followed by str(): the first kind one of whose
\* keywords the lowered label contains, "Artifact" when there is none;
\* the keywords are those of TYPE_KEYWORDS, and "painting" is not tested
FromText(text) ==
    LET has(words) == \E w \in words : Contains(Lower(text), w)
    IN IF Falsy(text) THEN <<"A", "r", "t", "i", "f", "a", "c", "t">>
       ELSE IF has(Keywords_drawing) THEN <<"D", "r", "a", "w", "i", "n", "g">>
       ELSE IF has(Keywords_print) THEN <<"P", "r", "i", "n", "t">>
       ELSE IF has(Keywords_photograph)
       THEN <<"P", "h", "o", "t", "o", "g", "r", "a", "p", "h">>
       ELSE IF has(Keywords_manuscript)
       THEN <<"M", "a", "n", "u", "s", "c", "r", "i", "p", "t">>
       ELSE IF has(Keywords_installation)
       THEN <<"I", "n", "s", "t", "a", "l", "l", "a", "t", "i", "o", "n">>
       ELSE IF has(Keywords_artifact) THEN <<"A", "r", "t", "i", "f", "a", "c", "t">>
       ELSE IF has(Keywords_sculpture)
       THEN <<"S", "c", "u", "l", "p", "t", "u", "r", "e">>
       ELSE <<"A", "r", "t", "i", "f", "a", "c", "t">>

\* the solutions of an OPTIONAL block  <artwork> p ?node . ?node rdfs:label
\* ?label . ?node owl:sameAs ?link : all three statements are needed
AttributeBlock(g, artwork_uri, p) ==
    UNION {{[node |-> t, label |-> l, link |-> k] :
               l \in Objects(g, t, "rdfs:label"),
               k \in Objects(g, t, "owl:sameAs")} :
              t \in Objects(g, artwork_uri, p)}

NoAttribute == [node |-> Unbound, label |-> Unbound, link |-> Unbound]

\* the object of ?event p ?x together with its name:  ?x nameP ?name
NamedObjects(g, e, p, nameP) ==
    UNION {{[node |-> x, name |-> nm] : nm \in Objects(g, x, nameP)} :
              x \in Objects(g, e, p)}

\* the solutions of the OPTIONAL block of the production event: the event,
\* its artist with a foaf:name, its location with an rdfs:label, its date
EventBlock(g, artwork_uri) ==
    UNION {{[event |-> e, artist |-> a.node, artistName |-> a.name,
             location |-> l.node, locationName |-> l.name, date |-> d] :
               a \in NamedObjects(g, e, "crm:P14_carried_out_by", "foaf:name"),
               l \in NamedObjects(g, e, "crm:P7_took_place_at", "rdfs:label"),
               d \in Objects(g, e, "crm:P4_has_time_span")} :
              e \in {t[1] : t \in {u \in g : /\ u[2] = "crm:P108_has_produced"
                                             /\ u[3] = artwork_uri}}}

NoEvent ==
    [event |-> Unbound, artist |-> Unbound, artistName |-> Unbound,
     location |-> Unbound, locationName |-> Unbound, date |-> Unbound]

\* the solutions of the query of get_artwork: none when the uri is no
\* artwork of the graph, else one for each choice among the OPTIONAL blocks
ArtworkSolutions(g, artwork_uri) ==
    IF ~IsArtwork(g, artwork_uri) THEN {}
    ELSE {[identifier |-> i, title |-> t, imageURL |-> m, type |-> ty,
           subject |-> su, material |-> ma, production |-> ev] :
            i \in Optional(SymbolicContent(g, artwork_uri, "crm:P1_is_identified_by"),
                           Unbound),
            t \in Optional(SymbolicContent(g, artwork_uri, "crm:P102_has_title"),
                           Unbound),
            m \in Optional(Objects(g, artwork_uri, "foaf:depiction"), Unbound),
            ty \in Optional(AttributeBlock(g, artwork_uri, "crm:P2_has_type"),
                            NoAttribute),
            su \in Optional(AttributeBlock(g, artwork_uri, "crm:P15_was_influenced_by"),
                            NoAttribute),
            ma \in Optional(AttributeBlock(g, artwork_uri, "crm:P45_consists_of"),
                            NoAttribute),
            ev \in Optional(EventBlock(g, artwork_uri), NoEvent)}

\* a nested dict of artwork_data, as a sequence: empty for None
Nested(label, dict) == IF Truthy(label) THEN <<dict>> ELSE <<>>

\* artwork_data after the loop over the rows.  Each OPTIONAL block depends
\* on the artwork alone, so every row binds the same variables and the
\* row visited last overwrites what the others set.
ArtworkDetails(artwork_uri, row) ==
    [id |-> artwork_uri.n,
     uri |-> artwork_uri,
     inventoryNumber |-> StrOrNone(row.identifier),
     title |-> StrOrNone(row.title),
     imageURL |-> StrOrNone(row.imageURL),
     artist |-> Nested(row.production.artistName,
                       [uri |-> UriOrNone(row.production.artist),
                        name |-> row.production.artistName.s]),
     location |-> Nested(row.production.locationName,
                         [uri |-> UriOrNone(row.production.location),
                          name |-> row.production.locationName.s]),
     date |-> StrOrNone(row.production.date),
     type |-> Nested(row.type.label,
                     [uri |-> UriOrNone(row.type.node),
                      label |-> FromText(row.type.label.s),
                      link |-> StrOrNone(row.type.link)]),
     subject |-> Nested(row.subject.label,
                        [uri |-> UriOrNone(row.subject.node),
                         label |-> row.subject.label.s,
                         link |-> StrOrNone(row.subject.link)]),
     material |-> Nested(row.material.label,
                         [uri |-> UriOrNone(row.material.node),
                          label |-> row.material.label.s,
                          link |-> StrOrNone(row.material.link)]),
     event |-> UriOrNone(row.production.event)]

\* artwork_data as built before the loop: a row that binds nothing leaves
\* every field None
NoRow ==
    [identifier |-> Unbound, title |-> Unbound, imageURL |-> Unbound,
     type |-> NoAttribute, subject |-> NoAttribute, material |-> NoAttribute,
     production |-> NoEvent]

\* the record returned whatever the query found
NoResultsNever(results) == FALSE

\* `if not results`
NoResults(results) == results = {}

\* RDFStoreService.get_artwork: the values it can return, each a sequence:
\* empty for None (no solution, or graph.query raised), else the dict
GetArtwork(g, artwork_uri) ==
    IF NotAnIri(artwork_uri) THEN {<<>>}
    ELSE IF NoResults(ArtworkSolutions(g, artwork_uri)) THEN {<<>>}
    ELSE {<<ArtworkDetails(artwork_uri, row)>> :
             row \in Optional(ArtworkSolutions(g, artwork_uri), NoRow)}

----------------------------------------------------------------------------
(* The artworks router: list_artworks, get_artwork.  An id of a request    *)
(* is the uuid of a node, written as its number, or one of three values    *)
(* that are no uuid.                                                       *)

\* the parameter not given (None), given as '', and BadId (above)
NoId == 0 - 2
EmptyId == 0 - 3

\* `if x_id and x_id != ''`
Given(id) == id # NoId /\ id # EmptyId

\* f"http://arp-greatteam.org/heritage-provenance/{kind}/{id}"
IdUri(kind, id) == IF Given(id) THEN Uri(kind, id) ELSE NoUri

\* the dict of filters list_artworks builds
RouterFilters(type_id, material_id, subject_id, artist_id, location_id) ==
    [type |-> None,
     type_uri |-> IdUri("attributes", type_id),
     material_uri |-> IdUri("attributes", material_id),
     subject_uri |-> IdUri("attributes", subject_id),
     artist_uri |-> IdUri("artist", artist_id),
     location_uri |-> IdUri("location", location_id)]

\* list_artworks: the responses it can give.  get_all_artworks catches
\* what graph.query raises, so the except branch of the router is not taken.
ListArtworks(g, filters, limit) ==
    {[error |-> "", count |-> Len(artworks), artworks |-> artworks] :
        artworks \in GetAllArtworks(g, filters, None, limit, 0)}

\* wikidata_enrichment: skipped for an artwork without title; else what
\* the search gave: an entity, no result, or an exception (caught)
Enrichments(artwork) ==
    IF Falsy(artwork.title) THEN {"skipped"}
    ELSE {"entity", "No results found", "exception"}

\* the router's get_artwork: the responses it can give
RouteGetArtwork(g, artwork_id) ==
    UNION {IF artwork = <<>>
           THEN {[error |-> "Artwork not found", artwork_id |-> artwork_id,
                  artwork |-> <<>>, wikidata_enrichment |-> "skipped"]}
           ELSE {[error |-> "", artwork_id |-> artwork_id,
                  artwork |-> artwork, wikidata_enrichment |-> e] :
                    e \in Enrichments(artwork[1])} :
              artwork \in GetArtwork(g, Uri("artwork", artwork_id))}

----------------------------------------------------------------------------
(* SpecStore: a client of RDFStoreService that calls the add operations    *)
(* and the queries directly, next to an import.                            *)

\* the ids a direct caller passes: its own (number 0), or None
CallerUris(kind) == {Uri(kind, 0), NoUri}

\* RDFStoreService.execute_sparql: graph.query evaluates a SELECT (here:
\* all subjects) and rejects an update request, which makes it return None
ExecuteSparql(g, query) ==
    IF query = "select" THEN [ret |-> "found", rows |-> {t[1] : t \in g}]
    ELSE [ret |-> "none", rows |-> {}]

\* a direct call of an add operation
StoreCall(op, r) ==
    /\ pc = "idle"
    /\ call < MaxCalls
    /\ call' = call + 1
    /\ graph' = r.graph
    /\ lastOp' = [op |-> op,
                  ret |-> IF r.raised THEN "raise"
                          ELSE IF r.ret THEN "true" ELSE "false",
                  failed |-> r.failed, rows |-> {}, args |-> <<>>, data |-> <<>>]
    /\ UNCHANGED race
    /\ UNCHANGED <<created_artists, created_locations, created_entities, nextId,
                   epoch, pc, docLen, todo, errors, imported_count, outcomes,
                   summary, mintLog>>

\* a query
StoreQuery(op, r) ==
    /\ pc = "idle"
    /\ lastOp' = [op |-> op, ret |-> r.ret, failed |-> FALSE, rows |-> r.rows,
                  args |-> <<>>, data |-> <<>>]
    /\ UNCHANGED race
    /\ UNCHANGED <<graph, created_artists, created_locations, created_entities,
                   nextId, epoch, call, pc, docLen, todo, errors, imported_count,
                   outcomes, summary, mintLog>>

CallAddArtwork ==
    \E u \in CallerUris("artwork"), id \in {INV1, None}, title \in {Vara, None},
       ty \in {NoUri, Uri("attributes", 0)} :
        StoreCall("add_artwork",
                  AddArtwork(graph, u,
                             [inventoryNumber |-> id, title |-> title,
                              imageURL |-> None, type_uri |-> ty,
                              subject_uri |-> NoUri, material_uri |-> NoUri], 0))

CallAddEntity ==
    \E u \in CallerUris("attributes"), ty \in {"type", "provider"},
       link \in {None, Aat1} :
        StoreCall("add_entity", AddEntity(graph, ty, u, Pictura, link, 0))

CallAddArtist ==
    \E u \in CallerUris("artist"), name \in {Ion, Absent} :
        StoreCall("add_artist",
                  AddArtist(graph, u, [creator |-> name, creatorULAN |-> Absent], 0))

CallAddLocation ==
    \E u \in CallerUris("location"), name \in {Bucharest, Absent} :
        StoreCall("add_location",
                  AddLocation(graph, u,
                              [location |-> PyStr(name), locationTGN |-> Absent], 0))

CallAddProvenanceEvent ==
    \E u \in CallerUris("event"), provider \in {NoUri, Uri("attributes", 0)} :
        StoreCall("add_provenance_event",
                  AddProvenanceEvent(graph, u,
                      [type |-> Creation, artwork_uri |-> Uri("artwork", 0),
                       artist_uri |-> Uri("artist", 0),
                       location_uri |-> Uri("location", 0), date |-> Year,
                       provider_uri |-> provider, institute_uri |-> provider], 0))

CallGetAllArtworks ==
    \E a \in {NoUri, Uri("artist", 0), Uri("artist", 1)} :
        \E artworks \in GetAllArtworks(graph, [NoFilters EXCEPT !.artist_uri = a],
                                       None, DefaultLimit, 0) :
            StoreQuery("get_all_artworks",
                       [ret |-> "found",
                        rows |-> {artworks[i].uri : i \in DOMAIN artworks}])

CallGetArtwork ==
    \E u \in {Uri("artwork", 0), Uri("artwork", 4)} :
        \E artwork \in GetArtwork(graph, u) :
            StoreQuery("get_artwork",
                       IF artwork = <<>> THEN [ret |-> "none", rows |-> {}]
                       ELSE [ret |-> "found",
                             rows |-> {artwork[1].inventoryNumber}])

CallExecuteSparql ==
    \E q \in {"select", "update"} :
        StoreQuery("execute_sparql", ExecuteSparql(graph, q))

AddOps == {"add_artwork", "add_entity", "add_artist", "add_location",
           "add_provenance_event"}
QueryOps == {"get_all_artworks", "get_artwork", "execute_sparql"}

NextStore ==
    \/ CallAddArtwork
    \/ CallAddEntity
    \/ CallAddArtist
    \/ CallAddLocation
    \/ CallAddProvenanceEvent
    \/ CallGetAllArtworks
    \/ CallGetArtwork
    \/ CallExecuteSparql
    \/ \E n \in 0..1 : ImportEdmXml(Xml(TRUE, n))
    \/ \E entry \in {ScenarioA, PlainRecord} : ProcessRecord(entry, NoFault)
    \/ ReturnSummary

SpecStore == Init /\ [][NextStore]_vars

----------------------------------------------------------------------------
(* SpecAgg: imports of records paired with an ore:Aggregation that names   *)
(* a provider, an institute, both, or neither.                             *)

\* the aggregations: edm:provider with an rdf:resource or without the
\* element, edm:dataProvider with text or without the element
Aggregations ==
    {Agg(provider, dataProvider, <<>>) :
        provider \in {<<>>, <<Elem(None, Wd1)>>},
        dataProvider \in {<<>>, One(Muzeu)}}

AggCases ==
    {Entry(cho, <<agg>>) : cho \in {ScenarioA.cho, ScenarioB.cho},
                           agg \in Aggregations}

NextAgg ==
    \/ \E xml \in Documents : ImportEdmXml(xml)
    \/ \E entry \in AggCases : ProcessRecord(entry, NoFault)
    \/ ReturnSummary

SpecAgg == Init /\ [][NextAgg]_vars

----------------------------------------------------------------------------
(* SpecQuery: one import, then requests to the artworks router and calls   *)
(* of the two queries of the store.                                        *)

\* records of the document of SpecQuery
MaxQueryRecords == 2

\* the largest limit and the largest offset a caller asks for, the
\* default limit aside
MaxLimit == 2
MaxSkip == 2

Nine == <<"9">>
Ten == <<"1", "0">>
UleiPePanza == <<"U", "l", "e", "i", " ", "p", "e", " ", "p", "a_circ", "n", "z", "a_breve">>
Daguerreotype == <<"D", "a", "g", "u", "e", "r", "r", "e", "o", "t", "y", "p", "e">>
PicturaUpper == <<"P", "I", "C", "T", "U", "R", "A_breve">>
Painting == <<"p", "a", "i", "n", "t", "i", "n", "g">>
PaintingCapital == <<"P", "a", "i", "n", "t", "i", "n", "g">>
Photo == <<"p", "h", "o", "t", "o", "g", "r", "a", "p", "h">>
SearchText == <<"v", "a", "r">>

\* a painting with type, subject and material, type and material linked
OilOnCanvas ==
    Entry(Cho(One(Nine), One(Ion), One(Bucharest), <<Elem(UleiPePanza, Aat1)>>,
              One(Peisaj), <<Elem(Ulei, Aat1)>>), <<>>)

\* a photograph: a type without link, no subject, no material
Photograph ==
    Entry(Cho(One(Ten), One(Ana), One(Cluj), One(Daguerreotype), <<>>, <<>>), <<>>)

\* a record with identifier and type alone, the type in capitals
Untitled ==
    Entry([Cho(One(INV1), <<>>, <<>>, One(PicturaUpper), <<>>, <<>>) EXCEPT
              !.title = <<>>], <<>>)

\* the records of the document, two of them met by a store that raises:
\* in add_entity (the artwork gets no type, subject or material) and in
\* add_artist (the artwork gets no creation event)
QueryCases ==
    {[entry |-> OilOnCanvas, fault |-> NoFault],
     [entry |-> Photograph, fault |-> NoFault],
     [entry |-> Untitled, fault |-> NoFault],
     [entry |-> Photograph, fault |-> [op |-> "add_entity", at |-> 1]],
     [entry |-> OilOnCanvas, fault |-> [op |-> "add_artist", at |-> 1]]}

\* the call of SpecQuery
ImportForQueries(n) ==
    /\ call = 0
    /\ ImportEdmXml(Xml(TRUE, n))

\* a request or a query and what it returned
QueryStep(op, args, data) ==
    /\ lastOp' = [op |-> op, ret |-> "returned", failed |-> FALSE, rows |-> {},
                  args |-> args, data |-> data]
    /\ UNCHANGED race
    /\ UNCHANGED <<graph, created_artists, created_locations, created_entities,
                   nextId, epoch, call, pc, docLen, todo, errors, imported_count,
                   outcomes, summary, mintLog>>

\* the client is about to make a request.  A request changes nothing but
\* lastOp, so the requests that could follow one are those that can be made
\* in its place: one request between two steps of the import shows them all
Ready ==
    /\ pc = "idle"
    /\ lastOp = NotAStoreCall

\* the ids a client asks for: those of the nodes of a kind, the uuid of no
\* node, and a text that is no uuid
RequestIds(kind) ==
    {t[1].n : t \in {u \in graph : u[1].k = kind}} \cup {nextId, BadId}

FilterNames == {"type", "material", "subject", "artist", "location"}

\* the kind of node a filter of the router names
FilterKind(f) ==
    CASE f = "artist" -> "artist"
      [] f = "location" -> "location"
      [] OTHER -> "attributes"

\* the limits a caller asks for
Limits == 1..MaxLimit \cup {DefaultLimit}

\* GET /artworks with one filter (or with one given as '')
RequestList ==
    /\ Ready
    /\ \E f \in FilterNames, limit \in Limits :
        \E id \in RequestIds(FilterKind(f)) \cup {EmptyId} :
            \E ids \in {[x \in FilterNames |-> IF x = f THEN id ELSE NoId]} :
                \E response \in ListArtworks(graph,
                                    RouterFilters(ids.type, ids.material, ids.subject,
                                                  ids.artist, ids.location),
                                    limit) :
                    QueryStep("list_artworks", [ids |-> ids, limit |-> limit],
                              response)

\* GET /artworks/{artwork_id}
RequestArtwork ==
    /\ Ready
    /\ \E id \in RequestIds("artwork") :
        \E response \in RouteGetArtwork(graph, id) :
            QueryStep("route_get_artwork", [artwork_id |-> id], response)

\* a call of get_all_artworks with a type keyword, a search text, a limit
\* and an offset
QueryArtworks ==
    /\ Ready
    /\ \E type \in {None, Painting, PaintingCapital, Photo, Ulei},
          search \in {None, SearchText},
          limit \in Limits, skip \in 0..MaxSkip :
        \E artworks \in GetAllArtworks(graph, [NoFilters EXCEPT !.type = type],
                                       search, limit, skip) :
            QueryStep("get_all_artworks",
                      [filters |-> [NoFilters EXCEPT !.type = type],
                       search |-> search, limit |-> limit, skip |-> skip],
                      artworks)

\* a call of get_artwork
FetchArtwork ==
    /\ Ready
    /\ \E id \in RequestIds("artwork") :
        \E artwork \in GetArtwork(graph, Uri("artwork", id)) :
            QueryStep("get_artwork", [artwork_uri |-> Uri("artwork", id)], artwork)

NextQuery ==
    \/ \E n \in 0..MaxQueryRecords : ImportForQueries(n)
    \/ \E c \in QueryCases : ProcessRecord(c.entry, c.fault)
    \/ ReturnSummary
    \/ RequestList
    \/ RequestArtwork
    \/ QueryArtworks
    \/ FetchArtwork

SpecQuery == Init /\ [][NextQuery]_vars

----------------------------------------------------------------------------
(* Properties *)

Artworks(g) == Subjects(g, "crm:E22_Man_Made_Object")
Persons(g) == Subjects(g, "crm:E21_Person")
Places(g) == Subjects(g, "crm:E53_Place")
Productions(g) == Subjects(g, "crm:E12_Production")

\* the record has no dc:identifier element with text
LacksIdentifier(cho) ==
    \A i \in DOMAIN cho.identifier : cho.identifier[i].text = None

\* the record just visited, in a step that visits one
Visits == Len(outcomes') = Len(outcomes) + 1
Visited == outcomes'[Len(outcomes')]

RegistryUnchanged ==
    /\ created_artists' = created_artists
    /\ created_locations' = created_locations
    /\ created_entities' = created_entities

\* C1: a record without the required dc:identifier is skipped: the error
\* counter grows by one, the imported counter does not, and the Store and
\* the Registry are after the record exactly what they were before it.
C1_MissingIdentifierSkipped ==
    [][(Visits /\ LacksIdentifier(Visited.entry.cho))
        => /\ graph' = graph
           /\ Cardinality(Artworks(graph')) = Cardinality(Artworks(graph))
           /\ RegistryUnchanged
           /\ Len(errors') = Len(errors) + 1
           /\ imported_count' = imported_count]_vars

\* a record with a creator and no identifier was visited after another one
\* had filled the Store
C1_Witness ==
    \E i \in DOMAIN outcomes :
        /\ i > 1
        /\ LacksIdentifier(outcomes[i].entry.cho)
        /\ outcomes[i].entry.cho.creator # <<>>
        /\ outcomes[i - 1].ret = "true"
        /\ Len(errors) >= 1
        /\ graph # {}

\* the cache a kind of node is kept in
CacheOf(kind) == IF kind \in {"artist", "location"} THEN kind ELSE "attributes"

\* C2: within one importer at most one node is minted per natural key,
\* over any sequence of import calls; a new importer over the same Store
\* mints its own node for every key it resolves: the ids in its caches are
\* ids it minted itself, different from those of every other importer.
C2_OneNodePerKey ==
    /\ \A x, y \in mintLog :
          (x.epoch = y.epoch /\ CacheOf(x.kind) = CacheOf(y.kind) /\ x.key = y.key)
              => x.uri = y.uri
    /\ \A x, y \in mintLog : x.epoch # y.epoch => x.uri # y.uri
    /\ \A k \in DOMAIN created_artists :
          \E x \in mintLog : /\ x.epoch = epoch /\ x.kind = "artist"
                             /\ x.key[1] = k /\ x.uri = created_artists[k]
    /\ \A k \in DOMAIN created_locations :
          \E x \in mintLog : /\ x.epoch = epoch /\ x.kind = "location"
                             /\ x.key[1] = k /\ x.uri = created_locations[k]
    /\ \A k \in DOMAIN created_entities :
          \E x \in mintLog : /\ x.epoch = epoch /\ CacheOf(x.kind) = "attributes"
                             /\ x.key = k /\ x.uri = created_entities[k]
    /\ \A name \in {Ion, Ana, UnknownArtist} :
          Cardinality({a \in Persons(graph) :
                          Lit(name) \in Objects(graph, a, "foaf:name")}) <= epoch

\* the same record was imported by two calls of one importer
C2_Witness ==
    \E i, j \in DOMAIN outcomes :
        /\ i < j
        /\ outcomes[i].entry = outcomes[j].entry
        /\ outcomes[i].epoch = outcomes[j].epoch
        /\ outcomes[i].call # outcomes[j].call
        /\ outcomes[i].ret = "true" /\ outcomes[j].ret = "true"
        /\ outcomes[i].entry.cho.type # <<>>
        /\ summary.status = "returned"

Imported(i) == outcomes[i].ret = "true"

\* C3: every imported record has its own artwork id and its own event id,
\* also when its identifier repeats an earlier one, while two records of
\* one session with the same creator and spatial values share the Agent id
\* and the Location id.
C3_FreshArtworkSharedAgent ==
    /\ \A i, j \in DOMAIN outcomes :
          (i < j /\ Imported(i) /\ Imported(j)) =>
             /\ outcomes[i].artwork_uri # outcomes[j].artwork_uri
             /\ outcomes[i].event_uri # NoUri /\ outcomes[j].event_uri # NoUri
             /\ outcomes[i].event_uri # outcomes[j].event_uri
             /\ outcomes[i].event_uri.n # outcomes[j].artwork_uri.n
             /\ outcomes[i].artwork_uri.n # outcomes[j].event_uri.n
             /\ \A x \in mintLog : /\ x.uri.n # outcomes[j].artwork_uri.n
                                   /\ x.uri.n # outcomes[j].event_uri.n
             /\ (/\ outcomes[i].epoch = outcomes[j].epoch
                 /\ outcomes[i].entry.cho.creator = outcomes[j].entry.cho.creator
                 /\ outcomes[i].entry.cho.spatial = outcomes[j].entry.cho.spatial)
                => /\ outcomes[i].artist_uri = outcomes[j].artist_uri
                   /\ outcomes[i].location_uri = outcomes[j].location_uri
    /\ Cardinality(Artworks(graph)) = Cardinality({i \in DOMAIN outcomes : Imported(i)})
    /\ Cardinality(Productions(graph)) = Cardinality({i \in DOMAIN outcomes : Imported(i)})

\* Scenario A, then Scenario B, imported by the same importer
C3_Witness ==
    /\ Len(outcomes) = 2
    /\ outcomes[1].entry = ScenarioA /\ outcomes[2].entry = ScenarioB
    /\ outcomes[1].epoch = outcomes[2].epoch
    /\ Imported(1) /\ Imported(2)

\* a field with exactly one element, which has text
SingleText(elems) == Len(elems) = 1 /\ ~Falsy(elems[1].text)

\* identifier, creator, spatial value and type, one of each
ScenarioShaped(cho) ==
    /\ SingleText(cho.identifier) /\ SingleText(cho.creator)
    /\ SingleText(cho.spatial) /\ SingleText(cho.type)

\* C4: one record with identifier, creator, spatial value and type, imported
\* into the empty Store, gives one artwork with that identifier, one person
\* with that name, one place with that label, and one creation event that
\* links the three.
C4_ScenarioA ==
    (Len(outcomes) = 1 /\ ScenarioShaped(outcomes[1].entry.cho)) =>
        LET cho == outcomes[1].entry.cho
        IN /\ Cardinality(Artworks(graph)) = 1
           /\ \A w \in Artworks(graph) :
                 \E idn \in Objects(graph, w, "crm:P1_is_identified_by") :
                    Objects(graph, idn, "crm:P190_has_symbolic_content")
                        = {Lit(cho.identifier[1].text)}
           /\ Cardinality(Persons(graph)) = 1
           /\ \A a \in Persons(graph) :
                 Objects(graph, a, "foaf:name") = {Lit(cho.creator[1].text)}
           /\ Cardinality(Places(graph)) = 1
           /\ \A l \in Places(graph) :
                 Objects(graph, l, "rdfs:label") = {Lit(cho.spatial[1].text)}
           /\ Cardinality(Productions(graph)) = 1
           /\ \A e \in Productions(graph) :
                 /\ Objects(graph, e, "rdfs:label") = {Lit(Creation)}
                 /\ Objects(graph, e, "crm:P108_has_produced") = Artworks(graph)
                 /\ Objects(graph, e, "crm:P14_carried_out_by") = Persons(graph)
                 /\ Objects(graph, e, "crm:P7_took_place_at") = Places(graph)

\* the record of Scenario A is the only one visited
C4_Witness ==
    /\ Len(outcomes) = 1
    /\ outcomes[1].entry = ScenarioA
    /\ Imported(1)
    /\ summary.status = "returned"

\* C5: the creation event of a record is minted only if both its Agent id
\* and its Location id were resolved; when one of them was not, the artwork
\* is committed all the same and no event statement refers to it.
C5_EventNeedsBoth ==
    \A i \in DOMAIN outcomes :
        LET o == outcomes[i]
        IN /\ o.event_uri # NoUri
                => (o.artist_uri # NoUri /\ o.location_uri # NoUri)
           /\ (o.ret = "true" /\ (o.artist_uri = NoUri \/ o.location_uri = NoUri))
                => /\ o.artwork_uri \in Artworks(graph)
                   /\ o.event_uri = NoUri
                   /\ ~\E t \in graph : t[3] = o.artwork_uri

\* a record whose artist was not resolved was imported
C5_Witness ==
    \E i \in DOMAIN outcomes :
        /\ outcomes[i].ret = "true"
        /\ outcomes[i].artist_uri = NoUri
        /\ outcomes[i].location_uri # NoUri
        /\ outcomes[i].artwork_uri \in Artworks(graph)

\* the request cannot be served: the download failed, the format is not
\* known, or the document does not parse
FailingRequest(req) ==
    \/ req.download \in {"timeout", "transport", "status"}
    \/ req.format # "edm"
    \/ ~req.wellFormed

\* C8: an import call that fails structurally raises to its caller, returns
\* no summary, counts no per-record error, and leaves the Store and the
\* Registry what they were.
C8_StructuralFailureRaises ==
    [][(/\ summary' # summary
        /\ summary'.status \in {"pending", "raised"}
        /\ FailingRequest(summary'.request))
        => /\ summary'.status = "raised"
           /\ summary'.imported = 0 /\ summary'.errors = 0
           /\ summary'.error_details = <<>>
           /\ graph' = graph
           /\ RegistryUnchanged
           /\ errors' = errors /\ outcomes' = outcomes /\ pc' = "idle"]_vars

\* a download answered with an error status after records were imported
C8_Witness ==
    /\ summary.status = "raised"
    /\ summary.request.download = "status"
    /\ graph # {}
    /\ DOMAIN created_artists # {}

OfThisCall(o) == o.call = call
NotImported(o) == o.ret # "true"
WasImported(o) == o.ret = "true"

\* the records the current call visited, and those of them that errored
CallOutcomes == SelectSeq(outcomes, OfThisCall)
CallFailures == SelectSeq(CallOutcomes, NotImported)

\* C6: once an import call has entered its loop, every record of the
\* document reaches its outcome, imported or errored, whatever happened to
\* the records before it, and the call returns its summary.
C6_BatchRunsToCompletion ==
    (pc = "running") ~>
        (/\ pc = "idle"
         /\ summary.status = "returned"
         /\ Len(CallOutcomes) = docLen
         /\ summary.imported + summary.errors = docLen)

\* a call returned after a record raised, a record failed, and a later
\* record was imported
C6_Witness ==
    /\ summary.status = "returned"
    /\ \E i, j, k \in DOMAIN outcomes :
          /\ i < k /\ j < k
          /\ outcomes[i].ret = "raise"
          /\ outcomes[j].ret = "false"
          /\ outcomes[k].ret = "true"

\* the error string of an errored record
MessageOf(o) ==
    IF o.ret = "raise" THEN ExceptionMessage ELSE FailedMessage(o.entry.cho)

\* C7: the summary counts every errored record in errors, and error_details
\* holds the first min(10, errors) error strings, in record order.
C7_ErrorSampleBounded ==
    summary.status = "returned" =>
        /\ summary.errors = Len(CallFailures)
        /\ summary.imported = Len(SelectSeq(CallOutcomes, WasImported))
        /\ Len(summary.error_details) <= 10
        /\ Len(summary.error_details) =
              (IF summary.errors < 10 THEN summary.errors ELSE 10)
        /\ \A i \in 1..Len(summary.error_details) :
              summary.error_details[i] = MessageOf(CallFailures[i])

\* a summary of more than ten errors, of two kinds
C7_Witness ==
    /\ summary.status = "returned"
    /\ summary.errors > 10
    /\ Len(summary.error_details) = 10
    /\ \E i, j \in 1..10 : summary.error_details[i] # summary.error_details[j]

\* C9 as stated: an add operation never raises to its caller, returns
\* false whenever one of its insertions failed, and true only when all
\* of them succeeded.
C9_AddReportsFailure ==
    lastOp.op \in AddOps =>
        /\ lastOp.ret # "raise"
        /\ lastOp.failed => lastOp.ret = "false"
        /\ lastOp.ret = "true" => ~lastOp.failed

\* C10: no step removes a statement from the graph, and a query leaves
\* the graph as it is.
C10_StoreOnlyGrows ==
    [][/\ graph \subseteq graph'
       /\ (lastOp' # lastOp /\ lastOp'.op \in QueryOps) => graph' = graph]_vars

\* a raw query after a direct add and an import
C10_Witness ==
    /\ lastOp.op = "execute_sparql"
    /\ lastOp.rows # {}
    /\ \E t \in graph : t[1].n = 0 /\ t[1].k # "class"
    /\ \E i \in DOMAIN outcomes : outcomes[i].artwork_uri \in Artworks(graph)

\* every element of the field is without text (or there is none)
Blank(elems) == \A i \in DOMAIN elems : elems[i].text = None

\* the imported records of one importer whose field is blank
Unattributed(ep, field) ==
    {i \in DOMAIN outcomes :
        /\ outcomes[i].ret = "true"
        /\ outcomes[i].epoch = ep
        /\ Blank(outcomes[i].entry.cho[field])}

\* C11 as stated: in one import run the records without a creator share
\* one Agent node named "Unknown Artist", the records without a spatial
\* value share one Location node labelled "Unknown Location", and the run
\* creates no second node with either name.
C11_SentinelsShared ==
    \A ep \in 1..epoch :
        /\ \A i, j \in Unattributed(ep, "creator") :
              /\ outcomes[i].artist_uri = outcomes[j].artist_uri
              /\ Objects(graph, outcomes[i].artist_uri, "foaf:name")
                    = {Lit(UnknownArtist)}
        /\ \A i, j \in Unattributed(ep, "spatial") :
              /\ outcomes[i].location_uri = outcomes[j].location_uri
              /\ Objects(graph, outcomes[i].location_uri, "rdfs:label")
                    = {Lit(UnknownLocation)}
        /\ Cardinality({a \in Persons(graph) :
                           Lit(UnknownArtist) \in Objects(graph, a, "foaf:name")})
              <= epoch
        /\ Cardinality({l \in Places(graph) :
                           Lit(UnknownLocation) \in Objects(graph, l, "rdfs:label")})
              <= epoch

\* the part of C11 that is about sharing alone: one node per run for the
\* records without a creator, one for the records without a spatial value
C11_SharingOnly ==
    \A ep \in 1..epoch :
        /\ \A i, j \in Unattributed(ep, "creator") :
              outcomes[i].artist_uri = outcomes[j].artist_uri
        /\ \A i, j \in Unattributed(ep, "spatial") :
              outcomes[i].location_uri = outcomes[j].location_uri

\* C18 as stated: the object of every has-type link is a node typed as a
\* Type, of every consists-of link a node typed as a Material, and of every
\* influenced-by link a node typed as a Subject.
C18_AttributeKindsKept ==
    \A t \in graph :
        /\ t[2] = "crm:P2_has_type" => t[3] \in Subjects(graph, "crm:E55_Type")
        /\ t[2] = "crm:P45_consists_of" => t[3] \in Subjects(graph, "crm:E57_Material")
        /\ t[2] = "crm:P15_was_influenced_by"
              => t[3] \in Subjects(graph, "crm:E28_Conceptual_Object")

\* the predicates of the statements add_provenance_event makes
EventPredicates ==
    {"rdfs:label", "crm:P14_carried_out_by", "crm:P7_took_place_at",
     "crm:P108_has_produced", "crm:P4_has_time_span",
     "crm:P109_has_current_or_former_curator", "crm:P50i_is_currently_held_by"}

\* C19 as stated: when add_provenance_event returned false the graph holds
\* no statement about the event; when it returned true the graph holds the
\* event's two types and one statement of each of its predicates.
C19_EventAllOrNothing ==
    \A i \in DOMAIN outcomes :
        LET o == outcomes[i]
        IN o.event_uri # NoUri =>
              IF o.event_ret
              THEN /\ o.event_uri \in Productions(graph)
                   /\ o.event_uri \in Subjects(graph, "prov:Activity")
                   /\ \A p \in EventPredicates : Objects(graph, o.event_uri, p) # {}
              ELSE ~\E t \in graph : t[1] = o.event_uri

\* the aggregation of the record names a provider (an rdf:resource of
\* edm:provider), resp. an institute (a text of edm:dataProvider)
NamesProvider(entry) ==
    /\ entry.agg # <<>>
    /\ \E k \in DOMAIN entry.agg[1].provider :
          entry.agg[1].provider[k].resource # None
NamesInstitute(entry) ==
    /\ entry.agg # <<>>
    /\ \E k \in DOMAIN entry.agg[1].dataProvider :
          entry.agg[1].dataProvider[k].text # None

\* C20 as stated: the creation event of a record carries the provider link
\* whenever the record names a provider, and the institute link whenever
\* it names an institute, each independently of the other.
C20_EventCarriesProviderAndInstitute ==
    \A i \in DOMAIN outcomes :
        LET o == outcomes[i]
        IN (o.ret = "true" /\ o.event_uri # NoUri) =>
              /\ NamesProvider(o.entry) =>
                    \E n \in Objects(graph, o.event_uri,
                                     "crm:P109_has_current_or_former_curator") :
                        n \in Subjects(graph, "prov:Agent")
              /\ NamesInstitute(o.entry) =>
                    \E n \in Objects(graph, o.event_uri,
                                     "crm:P50i_is_currently_held_by") :
                        n \in Subjects(graph, "prov:Agent")

\* the half of C20 that is about the provider alone
C20_ProviderLinkOnly ==
    \A i \in DOMAIN outcomes :
        (/\ outcomes[i].ret = "true" /\ outcomes[i].event_uri # NoUri
         /\ NamesProvider(outcomes[i].entry)) =>
            Objects(graph, outcomes[i].event_uri,
                    "crm:P109_has_current_or_former_curator") # {}

\* a request to list_artworks that names a type id
ListedByType == lastOp.op = "list_artworks" /\ Given(lastOp.args.ids.type)

\* C12 as stated: a list request that supplies a type id returns only
\* artworks whose type link points to the attribute entity with that id.
C12_TypeIdFilters ==
    ListedByType =>
        \A i \in DOMAIN lastOp.data.artworks :
            <<lastOp.data.artworks[i].uri, "crm:P2_has_type",
              Uri("attributes", lastOp.args.ids.type)>> \in graph

\* what the code does instead: the type id changes nothing, the response
\* is one of those of the request without any filter
C12_TypeIdIgnored ==
    ListedByType =>
        lastOp.data \in ListArtworks(graph, NoFilters, lastOp.args.limit)

\* the artworks of the graph that the filters and the search text of a
\* call of get_all_artworks select
MatchingArtworks(args) ==
    {w \in Artworks(graph) :
        /\ IsArtwork(graph, w)
        /\ FilterClauses(graph, w, args.filters)
        /\ ~Falsy(args.search) =>
              \E title \in SymbolicContent(graph, w, "crm:P102_has_title") :
                  Contains(Lower(title.s), Lower(args.search))}

\* the smaller of two numbers
Least(a, b) == IF a < b THEN a ELSE b

\* C13: a list query returns min(limit, max(0, m - offset)) rows, m the
\* number of artworks the filters match, and the rows come in ascending
\* order of their identifier text.
C13_ListPagedAndOrdered ==
    lastOp.op = "get_all_artworks" =>
        /\ \E m \in {Cardinality(MatchingArtworks(lastOp.args))} :
              Len(lastOp.data) =
                  Least(lastOp.args.limit,
                        IF m > lastOp.args.skip THEN m - lastOp.args.skip ELSE 0)
        /\ \A i, j \in DOMAIN lastOp.data :
              i < j => ~StrLess(lastOp.data[j].inventoryNumber,
                                lastOp.data[i].inventoryNumber)

\* the second page of one row over two artworks: it holds "9", the
\* identifier of the artwork created first, after "10"
C13_Witness ==
    /\ lastOp.op = "get_all_artworks"
    /\ lastOp.args.limit = 1
    /\ lastOp.args.skip = 1
    /\ Len(lastOp.data) = 1
    /\ lastOp.data[1].inventoryNumber = Nine
    /\ \E w \in Artworks(graph) :
          /\ w.n > lastOp.data[1].id
          /\ Ten \in {x.s : x \in SymbolicContent(graph, w, "crm:P1_is_identified_by")}

\* the artworks of the graph refer to the node by the link that the
\* filter of that name follows
Referenced(f, uri) ==
    CASE f = "material" ->
            \E w \in Artworks(graph) : <<w, "crm:P45_consists_of", uri>> \in graph
      [] f = "subject" ->
            \E w \in Artworks(graph) :
                <<w, "crm:P15_was_influenced_by", uri>> \in graph
      [] f = "artist" ->
            \E w \in Artworks(graph), e \in Productions(graph) :
                /\ <<e, "crm:P108_has_produced", w>> \in graph
                /\ <<e, "crm:P14_carried_out_by", uri>> \in graph
      [] f = "location" ->
            \E w \in Artworks(graph), e \in Productions(graph) :
                /\ <<e, "crm:P108_has_produced", w>> \in graph
                /\ <<e, "crm:P7_took_place_at", uri>> \in graph

LinkFilterNames == {"material", "subject", "artist", "location"}

\* C14: a list request filtered by a material, subject, artist or location
\* id that no artwork refers to, an id of no node included, returns an
\* empty list and no error.
C14_UnreferencedIdGivesEmpty ==
    lastOp.op = "list_artworks" =>
        \A f \in LinkFilterNames :
            (/\ Given(lastOp.args.ids[f])
             /\ ~Referenced(f, Uri(FilterKind(f), lastOp.args.ids[f])))
            => /\ lastOp.data.error = ""
               /\ lastOp.data.count = 0
               /\ lastOp.data.artworks = <<>>

\* a store with artworks is asked for those made of a node that exists
\* and is no artwork's material
C14_Witness ==
    /\ lastOp.op = "list_artworks"
    /\ Artworks(graph) # {}
    /\ Given(lastOp.args.ids.material)
    /\ \E t \in graph : t[1] = Uri("attributes", lastOp.args.ids.material)
    /\ ~Referenced("material", Uri("attributes", lastOp.args.ids.material))
    /\ lastOp.data.artworks = <<>>

\* C15: fetch-by-id for an id that is no artwork of the store gives the
\* not-found result: None from get_artwork, the "Artwork not found"
\* response from the router.
C15_UnknownArtworkNotFound ==
    /\ (/\ lastOp.op = "get_artwork"
        /\ lastOp.args.artwork_uri \notin Artworks(graph))
       => lastOp.data = <<>>
    /\ (/\ lastOp.op = "route_get_artwork"
        /\ Uri("artwork", lastOp.args.artwork_id) \notin Artworks(graph))
       => /\ lastOp.data.error = "Artwork not found"
          /\ lastOp.data.artwork_id = lastOp.args.artwork_id
          /\ lastOp.data.artwork = <<>>

\* the router is asked for the uuid of no node while the store holds
\* artworks
C15_Witness ==
    /\ lastOp.op = "route_get_artwork"
    /\ Artworks(graph) # {}
    /\ lastOp.args.artwork_id = nextId
    /\ lastOp.data.error = "Artwork not found"

\* the link an attribute field of the record is read from
AttributeLink(field) ==
    CASE field = "type" -> "crm:P2_has_type"
      [] field = "subject" -> "crm:P15_was_influenced_by"
      [] field = "material" -> "crm:P45_consists_of"

\* the link of a production event that the artist or the location of the
\* record is read from, and the predicate that names the node
EventLink(field) ==
    IF field = "artist" THEN "crm:P14_carried_out_by" ELSE "crm:P7_took_place_at"
NameLink(field) == IF field = "artist" THEN "foaf:name" ELSE "rdfs:label"

\* the nodes an artwork is related to through its production events
EventObjects(w, field) ==
    UNION {Objects(graph, e, EventLink(field)) :
              e \in {x \in Productions(graph) :
                        <<x, "crm:P108_has_produced", w>> \in graph}}

\* C16: get_artwork on an artwork of the store returns the record; a
\* nested object (type, subject, material, artist, location) is in it only
\* if a node the artwork is related to carries the label, and the field is
\* null when the artwork lacks the relation.
C16_NestedOnlyWhenLabelled ==
    (/\ lastOp.op = "get_artwork"
     /\ lastOp.args.artwork_uri \in Artworks(graph))
    => /\ lastOp.data # <<>>
       /\ \A field \in {"type", "subject", "material"} :
             /\ lastOp.data[1][field] # <<>> =>
                   \E node \in Objects(graph, lastOp.args.artwork_uri,
                                       AttributeLink(field)) :
                       Objects(graph, node, "rdfs:label") # {}
             /\ Objects(graph, lastOp.args.artwork_uri, AttributeLink(field)) = {}
                   => lastOp.data[1][field] = <<>>
       /\ \A field \in {"artist", "location"} :
             /\ lastOp.data[1][field] # <<>> =>
                   \E node \in EventObjects(lastOp.args.artwork_uri, field) :
                       Objects(graph, node, NameLink(field)) # {}
             /\ EventObjects(lastOp.args.artwork_uri, field) = {}
                   => lastOp.data[1][field] = <<>>

\* an artwork without type, subject and material links, with a creation
\* event: the record has the artist and the location and no type
C16_Witness ==
    /\ lastOp.op = "get_artwork"
    /\ lastOp.args.artwork_uri \in Artworks(graph)
    /\ Objects(graph, lastOp.args.artwork_uri, "crm:P2_has_type") = {}
    /\ lastOp.data # <<>>
    /\ lastOp.data[1].type = <<>>
    /\ lastOp.data[1].artist # <<>>
    /\ lastOp.data[1].location # <<>>

\* the text contains the word, the case of the letters set aside
ContainsIgnoringCase(text, word) ==
    \E i \in 0..(Len(text) - Len(word)) :
        \A j \in 1..Len(word) : LowerChar(text[i + j]) = LowerChar(word[j])

\* a type label stored for the artwork contains a painting keyword
HasPaintingLabel(w) ==
    \E t \in Objects(graph, w, "crm:P2_has_type") :
        \E label \in Objects(graph, t, "rdfs:label") :
            \E k \in Keywords_painting : ContainsIgnoringCase(label.s, k)

\* a call with the type filter "painting" (in any case) and nothing else,
\* its page large enough for every artwork
PaintingsAsked ==
    /\ lastOp.op = "get_all_artworks"
    /\ lastOp.args.filters.type \in {Painting, PaintingCapital}
    /\ Falsy(lastOp.args.search)
    /\ lastOp.args.skip = 0
    /\ lastOp.args.limit >= Cardinality(Artworks(graph))

\* C17: the type filter "painting" matches every artwork whose stored type
\* label contains, in any case, a painting keyword of the table, and no
\* artwork whose type label contains none.
C17_PaintingKeywords ==
    PaintingsAsked =>
        {lastOp.data[i].uri : i \in DOMAIN lastOp.data}
            = {w \in Artworks(graph) : HasPaintingLabel(w)}

\* the store holds an artwork of type "Ulei pe panza" (with its
\* diacritics) and one of type "Daguerreotype"; the first alone is returned
C17_Witness ==
    /\ PaintingsAsked
    /\ lastOp.args.filters.type = Painting
    /\ Len(lastOp.data) = 1
    /\ \E t \in Objects(graph, lastOp.data[1].uri, "crm:P2_has_type") :
          Lit(UleiPePanza) \in Objects(graph, t, "rdfs:label")
    /\ \E w \in Artworks(graph), t \in Subjects(graph, "crm:E55_Type") :
          /\ <<w, "crm:P2_has_type", t>> \in graph
          /\ Lit(Daguerreotype) \in Objects(graph, t, "rdfs:label")

----------------------------------------------------------------------------
(* The registry: natural keys *)

\* the first name variant of a record's place: the text of its first
\* dcterms:spatial element that has one
FirstSpatialVariant(entry) ==
    IF WithText(entry.cho.spatial) = <<>> THEN UnknownLocation
    ELSE WithText(entry.cho.spatial)[1].text

\* two records imported by the same importer
SameRun(i, j) ==
    /\ Imported(i) /\ Imported(j)
    /\ outcomes[i].epoch = outcomes[j].epoch

\* C21: within one run, two records resolve to the same Location id exactly
\* when their first spatial name variants are equal, so records naming
\* different places never share a Location node.
C21_LocationKeyedByFirstName ==
    \A i, j \in DOMAIN outcomes :
        SameRun(i, j) =>
            ((outcomes[i].location_uri = outcomes[j].location_uri)
                <=> (FirstSpatialVariant(outcomes[i].entry)
                        = FirstSpatialVariant(outcomes[j].entry)))

\* what the code keys a Location by: the first character of the joined
\* text, the whole sentinel when there is no text
FirstCharacter(entry) ==
    IF WithText(entry.cho.spatial) = <<>> THEN UnknownLocation
    ELSE <<GetText(entry.cho.spatial)[1]>>

\* two records share a Location id exactly when these keys are equal
C21_KeyedByFirstCharacter ==
    \A i, j \in DOMAIN outcomes :
        SameRun(i, j) =>
            ((outcomes[i].location_uri = outcomes[j].location_uri)
                <=> (FirstCharacter(outcomes[i].entry)
                        = FirstCharacter(outcomes[j].entry)))

----------------------------------------------------------------------------
(* SpecRegistry: records that repeat a creator, a place or a type, with    *)
(* another external link (rdf:resource) than the record seen first.        *)

Ulan1 == <<"u", "l", "a", "n", ":", "1">>
Ulan2 == <<"u", "l", "a", "n", ":", "2">>
Tgn1 == <<"t", "g", "n", ":", "1">>
Tgn2 == <<"t", "g", "n", ":", "2">>

RegistryRecords ==
    {Entry(Cho(One(INV1), <<Elem(x[1], x[2])>>, <<Elem(Bucharest, x[3])>>,
               <<Elem(Pictura, x[4])>>, <<>>, <<>>), <<>>) :
        x \in {<<Ion, Ulan1, Tgn1, Aat1>>, <<Ion, Ulan2, Tgn2, Aat1>>,
               <<Ion, Ulan2, Tgn1, None>>, <<Ion, Ulan1, Tgn2, None>>,
               <<Ana, None, Tgn2, Aat1>>, <<Ana, None, Tgn1, None>>}}

NextRegistry ==
    \/ \E xml \in Documents : ImportEdmXml(xml)
    \/ \E entry \in RegistryRecords : ProcessRecord(entry, NoFault)
    \/ ReturnSummary
    \/ NewImporter

SpecRegistry == Init /\ [][NextRegistry]_vars

\* the natural keys of a record, as the three find-or-create methods
\* compute them
ArtistKey(entry) ==
    IF Falsy(GetText(entry.cho.creator)) THEN UnknownArtist
    ELSE GetText(entry.cho.creator)
EntityKey(entry, field) ==
    <<IF Falsy(GetText(entry.cho[field])) THEN UnknownName
      ELSE GetText(entry.cho[field]),
      GetAttr(entry.cho[field])>>

\* the statement of an artwork that links it to the entity of a field
FieldLink(field) ==
    CASE field = "type" -> "crm:P2_has_type"
      [] field = "subject" -> "crm:P15_was_influenced_by"
      [] field = "medium" -> "crm:P45_consists_of"

\* the record just visited got past the identifier test
Resolved == Visits /\ Visited.ret = "true"

\* C22: when the Registry resolves a natural key that is already cached, it
\* returns the previously minted id and leaves the Store unchanged: no
\* statement about a node that existed is added and no node of the kind is
\* minted, even when the repeated record carries another external link.
C22_CacheHitLeavesStore ==
    [][Resolved =>
        /\ InCache(ArtistKey(Visited.entry), created_artists) =>
              /\ Visited.artist_uri = created_artists[ArtistKey(Visited.entry)]
              /\ Persons(graph') = Persons(graph)
        /\ InCache(FirstCharacter(Visited.entry), created_locations) =>
              /\ Visited.location_uri
                    = created_locations[FirstCharacter(Visited.entry)]
              /\ Places(graph') = Places(graph)
        /\ \A field \in {"type", "subject", "medium"} :
              InCache(EntityKey(Visited.entry, field), created_entities) =>
                  Objects(graph', Visited.artwork_uri, FieldLink(field))
                      = {created_entities[EntityKey(Visited.entry, field)]}
        /\ \A t \in graph' \ graph : t[1].n >= nextId
        /\ \A key \in DOMAIN created_artists :
              created_artists'[key] = created_artists[key]
        /\ \A key \in DOMAIN created_locations :
              created_locations'[key] = created_locations[key]
        /\ \A key \in DOMAIN created_entities :
              created_entities'[key] = created_entities[key]
    ]_vars

\* two records of one importer name the same creator and the same place,
\* the second with another ULAN and another TGN link: they share the artist
\* and the location, whose nodes carry the links of the first record only
C22_Witness ==
    /\ Len(outcomes) = 2
    /\ SameRun(1, 2)
    /\ outcomes[1].entry.cho.creator = <<Elem(Ion, Ulan1)>>
    /\ outcomes[2].entry.cho.creator = <<Elem(Ion, Ulan2)>>
    /\ outcomes[1].entry.cho.spatial = <<Elem(Bucharest, Tgn1)>>
    /\ outcomes[2].entry.cho.spatial = <<Elem(Bucharest, Tgn2)>>
    /\ outcomes[1].artist_uri = outcomes[2].artist_uri
    /\ outcomes[1].location_uri = outcomes[2].location_uri
    /\ Objects(graph, outcomes[2].artist_uri, "owl:sameAs") = {ExtUri(Ulan1)}
    /\ Objects(graph, outcomes[2].location_uri, "owl:sameAs") = {ExtUri(Tgn1)}

----------------------------------------------------------------------------
(* Records that fail *)

\* the record just visited was counted as errored
Errored == Visits /\ Visited.ret # "true"

\* C23: every record that the import counts as errored contributes no
\* statements to the Store and no entries to the Registry, whatever the
\* cause of the failure.
C23_ErroredRecordLeavesNoTrace ==
    [][Errored =>
        UNCHANGED <<graph, created_artists, created_locations,
                    created_entities>>]_vars

----------------------------------------------------------------------------
(* SpecRace: two threads share one DataImporter and call                   *)
(* _find_or_create_artist with no lock.  A thread can be preempted after   *)
(* the lookup (data_importer.py:104), after add_artist (115) and after the *)
(* insert (116).                                                           *)

\* calls of _find_or_create_artist one caller makes in a behaviour
MaxRaceCalls == 2

\* the creators the records of the callers name: text and ULAN link
RaceCreators == {<<Ion, Ulan1>>, <<Ion, Ulan2>>, <<Ana, None>>, <<<<>>, None>>}

\* the insert left out
InsertedNowhere(cache, creator_name, artist_uri) == cache

\* self.created_artists[creator_name] = artist_uri
Inserted(cache, creator_name, artist_uri) == (creator_name :> artist_uri) @@ cache

\* another caller is between its lookup of the name and its insert
Overlaps(t, creator_name) ==
    \E u \in Callers \ {t} :
        /\ race.at[u].pc # "outside"
        /\ race.at[u].creator_name = creator_name

\* _find_or_create_artist up to the lookup: a hit returns the cached id
Lookup(t, name0, creator_ulan) ==
    /\ race.at[t].pc = "outside"
    /\ race.at[t].calls < MaxRaceCalls
    /\ \E creator_name \in {IF Falsy(name0) THEN UnknownArtist ELSE name0} :
          race' = IF InCache(creator_name, created_artists)
                  THEN [race EXCEPT
                           !.at[t] = Outside(@.calls + 1,
                                             created_artists[creator_name]),
                           !.served = @ \cup {creator_name}]
                  ELSE [race EXCEPT
                           !.at[t] = [pc |-> "missed",
                                      creator_name |-> creator_name,
                                      creator_ulan |-> creator_ulan,
                                      artist_uri |-> NoUri,
                                      calls |-> @.calls + 1],
                           !.overlapped = @ \/ Overlaps(t, creator_name)]
    /\ UNCHANGED <<graph, created_artists, created_locations, created_entities,
                   nextId, epoch, call, pc, docLen, todo, errors, imported_count,
                   outcomes, summary, mintLog, lastOp>>

\* after a miss: uuid4() and add_artist; None is returned when the add failed
Create(t) ==
    /\ race.at[t].pc = "missed"
    /\ \E r \in {AddArtist(graph, Uri("artist", nextId),
                           [creator |-> race.at[t].creator_name,
                            creatorULAN |-> race.at[t].creator_ulan], 0)} :
          /\ graph' = r.graph
          /\ race' = IF r.ret
                     THEN [race EXCEPT !.at[t].pc = "added",
                                       !.at[t].artist_uri = Uri("artist", nextId)]
                     ELSE [race EXCEPT !.at[t] = Outside(@.calls, NoUri)]
    /\ nextId' = nextId + 1
    /\ UNCHANGED <<created_artists, created_locations, created_entities, epoch,
                   call, pc, docLen, todo, errors, imported_count, outcomes,
                   summary, mintLog, lastOp>>

\* after add_artist: the insert into the cache, and the return of the new id
Insert(t) ==
    /\ race.at[t].pc = "added"
    /\ created_artists' = Inserted(created_artists, race.at[t].creator_name,
                                   race.at[t].artist_uri)
    /\ race' = [race EXCEPT !.at[t] = Outside(@.calls, @.artist_uri),
                            !.served = @ \cup {race.at[t].creator_name}]
    /\ UNCHANGED <<graph, created_locations, created_entities, nextId, epoch,
                   call, pc, docLen, todo, errors, imported_count, outcomes,
                   summary, mintLog, lastOp>>

NextRace ==
    \/ \E t \in Callers, c \in RaceCreators : Lookup(t, c[1], c[2])
    \/ \E t \in Callers : Create(t)
    \/ \E t \in Callers : Insert(t)

SpecRace == Init /\ [][NextRace]_vars

\* the artist nodes of a name
NamedNodes(creator_name) ==
    {p \in Persons(graph) : Lit(creator_name) \in Objects(graph, p, "foaf:name")}

\* every caller is outside _find_or_create_artist
AllReturned == \A t \in Callers : race.at[t].pc = "outside"

\* C24: find-or-create is a lookup followed by an insert with no lock.  As
\* long as no call looked a name up while another call was between its
\* lookup and its insert of that name (a serialized execution), exactly one
\* id is minted for every name resolved; once two calls did interleave that
\* way, two ids are minted for the one name.
C24_DuplicatesOnlyWhenInterleaved ==
    /\ ~race.overlapped =>
          \A creator_name \in race.served :
              Cardinality(NamedNodes(creator_name)) = 1
    /\ (race.overlapped /\ AllReturned) =>
          \E creator_name \in race.served :
              Cardinality(NamedNodes(creator_name)) >= 2

\* both callers looked the same name up before either inserted it: each
\* minted and returned an id of its own
C24_Witness ==
    /\ race.overlapped
    /\ AllReturned
    /\ race.at[1].calls = 1 /\ race.at[2].calls = 1
    /\ race.at[1].artist_uri # race.at[2].artist_uri
    /\ NamedNodes(Ion) = {race.at[1].artist_uri, race.at[2].artist_uri}

----------------------------------------------------------------------------
(* SpecEvents: artworks with more than one event.  After an import a       *)
(* client of the Store records a further event of an imported artwork      *)
(* (add_provenance_event), then lists artworks with several filters.       *)

\* the event a direct caller records: its own id, an artwork, an artist
\* and a location of the store
RecordEvent ==
    \E w \in Artworks(graph), a \in Persons(graph), l \in Places(graph) :
        StoreCall("add_provenance_event",
                  AddProvenanceEvent(graph, Uri("event", 0),
                      [type |-> Creation, artwork_uri |-> w, artist_uri |-> a,
                       location_uri |-> l, date |-> Year,
                       provider_uri |-> Uri("attributes", 0),
                       institute_uri |-> Uri("attributes", 0)], 0))

\* the filter dicts a caller of get_all_artworks passes
FilterChoices ==
    {[NoFilters EXCEPT !.type = type, !.material_uri = m, !.artist_uri = a,
                       !.location_uri = l] :
        type \in {None, Painting},
        m \in {NoUri} \cup Subjects(graph, "crm:E57_Material"),
        a \in {NoUri} \cup Persons(graph),
        l \in {NoUri} \cup Places(graph)}

\* get_all_artworks with any of the filters and a search text, one page
\* that holds every artwork
FilterArtworks ==
    /\ pc = "idle"
    /\ lastOp.op # "get_all_artworks"
    /\ \E filters \in FilterChoices, search \in {None, SearchText} :
        \E artworks \in GetAllArtworks(graph, filters, search, DefaultLimit, 0) :
            QueryStep("get_all_artworks",
                      [filters |-> filters, search |-> search,
                       limit |-> DefaultLimit, skip |-> 0],
                      artworks)

NextEvents ==
    \/ \E n \in 0..MaxQueryRecords : ImportForQueries(n)
    \/ \E entry \in {OilOnCanvas, Photograph} : ProcessRecord(entry, NoFault)
    \/ ReturnSummary
    \/ RecordEvent
    \/ FilterArtworks

SpecEvents == Init /\ [][NextEvents]_vars

\* the filters of a dict that are present
FilterKeys == {"type", "material_uri", "subject_uri", "artist_uri", "location_uri"}
Present(filters) == {f \in FilterKeys : filters[f] # NoFilters[f]}

\* the artworks a call returns with one page that holds them all
Listed(filters, search) ==
    UNION {{artworks[i].uri : i \in DOMAIN artworks} :
              artworks \in GetAllArtworks(graph, filters, search, DefaultLimit, 0)}

\* a call of get_all_artworks whose page holds every artwork
ListedAll ==
    /\ lastOp.op = "get_all_artworks"
    /\ lastOp.args.skip = 0
    /\ lastOp.args.limit >= Cardinality(Artworks(graph))

\* the intersection of what each present filter, and the search text,
\* gives alone
Intersection(filters, search) ==
    {w \in Artworks(graph) :
        /\ \A f \in Present(filters) :
              w \in Listed([NoFilters EXCEPT ![f] = filters[f]], None)
        /\ ~Falsy(search) => w \in Listed(NoFilters, search)}

\* C25: filters compose as independent constraints: ignoring pagination,
\* the result of a list query is the intersection, over the filters that
\* are present, of the results each of them gives alone; with no filter the
\* result is all artworks.
C25_FiltersCompose ==
    ListedAll =>
        {lastOp.data[i].uri : i \in DOMAIN lastOp.data}
            = Intersection(lastOp.args.filters, lastOp.args.search)

\* no artwork has more than one event that produced it
OneEventEach ==
    \A w \in Artworks(graph) :
        Cardinality({t \in graph : t[2] = "crm:P108_has_produced" /\ t[3] = w}) <= 1

\* as long as every artwork has one event at most, the filters do compose
C25_ComposeWithOneEvent == OneEventEach => C25_FiltersCompose

----------------------------------------------------------------------------
(* The loop over the records *)

\* the outcomes recorded so far stay as they are
OutcomesKept ==
    /\ Len(outcomes') \in {Len(outcomes), Len(outcomes) + 1}
    /\ SubSeq(outcomes', 1, Len(outcomes)) = outcomes

\* the errors recorded so far stay as they are, one is added
OneMoreError ==
    /\ Len(errors') = Len(errors) + 1
    /\ SubSeq(errors', 1, Len(errors)) = errors

\* C26: within an import call each record moves from pending through
\* resolving to committed or failed: a record is resolved at most once
\* (every turn of the loop takes the next pending record), it ends in
\* exactly one terminal state, and once it is terminal its outcome and its
\* contribution to the counters never change.
C26_RecordResolvedOnce ==
    [][/\ OutcomesKept
       /\ Visits =>
             /\ pc = "running"
             /\ todo' = todo - 1
             /\ Visited.ret \in {"true", "false", "raise"}
             /\ Visited.ret = "true" =>
                   imported_count' = imported_count + 1 /\ errors' = errors
             /\ Visited.ret # "true" =>
                   imported_count' = imported_count /\ OneMoreError
       /\ (~Visits /\ call' = call) =>
             imported_count' = imported_count /\ errors' = errors
       /\ pc' = "running" => Len(CallOutcomes') = docLen' - todo'
    ]_vars

\* a call over two records has returned: the first record was committed,
\* the second failed, and each counter holds one of them
C26_Witness ==
    /\ pc = "idle"
    /\ summary.status = "returned"
    /\ Len(CallOutcomes) = 2
    /\ CallOutcomes[1].ret = "true"
    /\ CallOutcomes[2].ret # "true"
    /\ imported_count = 1
    /\ Len(errors) = 1

----------------------------------------------------------------------------
(* The shape of the graph after imports *)

\* the events of the store: the nodes typed as an activity or a production
Events(g) == Subjects(g, "prov:Activity") \cup Productions(g)

\* C27: after any sequence of import calls, every ProvenanceEvent in the
\* Store has exactly one produced-artwork link, at most one carried-out-by
\* Agent link and at most one took-place-at Location link.
C27_EventLinkCounts ==
    \A e \in Events(graph) :
        /\ Cardinality(Objects(graph, e, "crm:P108_has_produced")) = 1
        /\ Cardinality(Objects(graph, e, "crm:P14_carried_out_by")) <= 1
        /\ Cardinality(Objects(graph, e, "crm:P7_took_place_at")) <= 1

\* two imported records left two events, of two artworks, that share the
\* artist and the location
C27_Witness ==
    /\ Cardinality(Events(graph)) = 2
    /\ Cardinality(UNION {Objects(graph, e, "crm:P108_has_produced") :
                             e \in Events(graph)}) = 2
    /\ Cardinality(UNION {Objects(graph, e, "crm:P14_carried_out_by") :
                             e \in Events(graph)}) = 1
    /\ Cardinality(UNION {Objects(graph, e, "crm:P7_took_place_at") :
                             e \in Events(graph)}) = 1

----------------------------------------------------------------------------
(* SpecPrefix: imports during which the store raises in any one graph.add  *)
(* of add_artwork or of add_provenance_event.  What the store holds after  *)
(* the record is what the record had written up to that graph.add, so the  *)
(* states of SpecPrefix show the store between two writes of a record.     *)

\* every graph.add of the two operations that write links, and the faults
\* of SpecFault
PrefixFaults ==
    {[op |-> o, at |-> k] :
        o \in {"add_artwork", "add_provenance_event"}, k \in 1..9}
    \cup Faults

\* a record with type, subject and material, and with an aggregation
FullRecord == Entry(OilOnCanvas.cho, ScenarioAgg.agg)

NextPrefix ==
    \/ \E xml \in Documents : ImportEdmXml(xml)
    \/ ProcessRecord(FullRecord, NoFault)
    \/ \E flt \in PrefixFaults : ProcessFaulty(FullRecord, flt)
    \/ ReturnSummary

SpecPrefix == Init /\ [][NextPrefix]_vars

\* the links the claim is about: of an event to its artist, location and
\* artwork, of an artwork to its type, subject and material
LinkPredicates ==
    {"crm:P14_carried_out_by", "crm:P7_took_place_at", "crm:P108_has_produced",
     "crm:P2_has_type", "crm:P15_was_influenced_by", "crm:P45_consists_of"}

\* the node was added: it has a type statement
Typed(g, node) == \E t \in g : t[1] = node /\ t[2] = RdfType

\* C28: after any sequence of import calls, every id that is the object of
\* an event's carried-out-by, took-place-at or produced link, or of an
\* artwork's type, subject or material link, is a node with type
\* statements; it had them before the link was added, since this holds
\* of the store between any two writes of a record as well.
C28_LinksPointToAddedNodes ==
    \A t \in graph : t[2] \in LinkPredicates => Typed(graph, t[3])

\* an artwork with its type, subject and material links, and an event that
\* has its three links
C28_Witness ==
    \E w \in Artworks(graph), e \in Events(graph) :
        /\ Objects(graph, w, "crm:P2_has_type") # {}
        /\ Objects(graph, w, "crm:P15_was_influenced_by") # {}
        /\ Objects(graph, w, "crm:P45_consists_of") # {}
        /\ Objects(graph, e, "crm:P14_carried_out_by") # {}
        /\ Objects(graph, e, "crm:P7_took_place_at") # {}
        /\ Objects(graph, e, "crm:P108_has_produced") = {w}

\* the store was left between two writes of an event: the event has its
\* artist and its location and not yet its artwork
C28_BetweenWrites ==
    \E e \in Events(graph) :
        /\ Objects(graph, e, "crm:P7_took_place_at") # {}
        /\ Objects(graph, e, "crm:P108_has_produced") = {}

----------------------------------------------------------------------------
(* The two vocabularies *)

\* the classes the add operations use, by vocabulary
ProvClasses == {"prov:Entity", "prov:Agent", "prov:Location", "prov:Activity"}
CrmClasses ==
    {"crm:E22_Man_Made_Object", "crm:E21_Person", "crm:E53_Place",
     "crm:E12_Production", "crm:E55_Type", "crm:E28_Conceptual_Object",
     "crm:E57_Material"}

\* the nodes the add operations create under the id they are given
NodesOfKind(kinds) == {n \in {t[1] : t \in graph} : n.k \in kinds}

\* the node has a type of one of the classes
TypedIn(node, classes) ==
    \E c \in classes : <<node, RdfType, Class(c)>> \in graph

\* C29: after any sequence of add operations, every node created by
\* add_artwork, add_artist, add_location, add_provenance_event or
\* add_entity carries a type from both vocabularies: one from prov and one
\* from crm.
C29_TypedInBothVocabularies ==
    \A node \in NodesOfKind({"artwork", "artist", "location", "event",
                             "attributes"}) :
        TypedIn(node, ProvClasses) /\ TypedIn(node, CrmClasses)

\* the nodes of the four other operations do carry both
C29_BothButForEntities ==
    \A node \in NodesOfKind({"artwork", "artist", "location", "event"}) :
        TypedIn(node, ProvClasses) /\ TypedIn(node, CrmClasses)

----------------------------------------------------------------------------
(* The counters of the summary *)

\* how many records of the call ended with one of the results
Counted(rets) ==
    Cardinality({i \in DOMAIN CallOutcomes : CallOutcomes[i].ret \in rets})

\* C30: for every import call that returns a summary, imported + errors is
\* the number of edm:ProvidedCHO records of the document: each record is
\* counted once, as imported or as errored, never both and never neither.
C30_EveryRecordCountedOnce ==
    summary.status = "returned" =>
        /\ summary.imported + summary.errors = docLen
        /\ summary.imported = Counted({"true"})
        /\ summary.errors = Counted({"false", "raise"})
        /\ Len(CallOutcomes) = docLen

\* the summary of a document of the longest kind: one record imported, the
\* others errored, more of them than the summary shows
C30_Witness ==
    /\ summary.status = "returned"
    /\ docLen = MaxBatch
    /\ summary.imported = 1
    /\ summary.errors = MaxBatch - 1
    /\ \E i \in DOMAIN CallOutcomes : CallOutcomes[i].ret = "raise"

============================================================================
